---- MODULE Spec2Model ----
(***************************************************************************)
(* Resilient extraction pipeline: the three orchestration modes of         *)
(* ExtractionPipeline (extractFromPages, extractParallel, extractStreaming) *)
(* driving one RateLimiter per run.  Time is discrete: one Tick is one     *)
(* unit of delayMs.                                                        *)
(***************************************************************************)
EXTENDS Integers, Sequences, FiniteSets, TLC

\* ---------------------------------------------------------------- bounds
NumChunks == 3
MaxConcurrentBound == 2
MaxDelay == 1
MaxRetriesBound == 2
MaxFailures == 3
MaxItems == 3
MaxSourceLen == 4
MaxTextLen == 2
MaxTexts == 2
ChunksPerRun == 2
MaxChunkText == 4
MaxChunkSizeBound == 2
MaxViewerText == 2
MaxHighlights == 2

\* ------------------------------------------------------------- constants
BackoffMultiplier == 2

Chunks == 1..NumChunks
Modes == {"sequential", "parallel", "streaming"}
Undefined == "undefined"
NoResult == [items |-> <<>>, pageNumber |-> 0, success |-> FALSE,
             error |-> Undefined, errorCode |-> Undefined]

\* the input PageChunk[]: chunk i carries its own pageNumber
chunks == [i \in Chunks |-> [content |-> i, pageNumber |-> 10 * i]]

\* ------------------------------------------------------------------ items
\* a string is a sequence of characters; an optional field is <<>> when it
\* is missing and <<v>> when it holds v
None == <<>>
Some(v) == <<v>>

\* the white space of the texts considered
IsWhiteSpace(c) == c \in {" ", "\n"}

RECURSIVE TrimStart(_)
TrimStart(s) ==
    IF s # <<>> /\ IsWhiteSpace(Head(s)) THEN TrimStart(Tail(s)) ELSE s

RECURSIVE TrimEnd(_)
TrimEnd(s) ==
    IF s # <<>> /\ IsWhiteSpace(s[Len(s)])
    THEN TrimEnd(SubSeq(s, 1, Len(s) - 1)) ELSE s

\* String.prototype.trim
Trim(s) == TrimEnd(TrimStart(s))

\* String.prototype.toLowerCase
ToLowerCase(s) == [i \in 1..Len(s) |-> IF s[i] = "A" THEN "a" ELSE s[i]]

\* the texts items are built from
EvidenceTexts == {<<>>, <<"a">>, <<"a", " ">>, <<"A", " ">>}
DescriptionTexts == {<<"a">>, <<"A", " ">>}

\* an extracted item: evidence is evidence.descriptionSpan.text when present,
\* description is the description when it is a string
Items ==
    [evidence : {None} \cup {Some(x) : x \in EvidenceTexts},
     description : {None} \cup {Some(x) : x \in DescriptionTexts}]

\* variant: the key is the bare text, without the name of its pass
KeyPrefix_None(pass) == <<>>

\* the text a key starts with: `evidence:`, `desc:` or `json:`
KeyPrefix(pass) ==
    CASE pass = "evidence" -> <<"e", "v", "i", "d", "e", "n", "c", "e", ":">>
      [] pass = "desc" -> <<"d", "e", "s", "c", ":">>
      [] pass = "json" -> <<"j", "s", "o", "n", ":">>

\* JSON.stringify(item): the braces and quotes as single characters, a
\* property name or a number as one token, a missing property left out
Stringify(item) ==
    <<"{">>
    \o (IF item.evidence # None
        THEN <<"\"", "evidence.descriptionSpan.text", "\"", ":", "\"">>
             \o item.evidence[1] \o <<"\"">>
        ELSE <<>>)
    \o (IF item.description # None
        THEN <<"\"", "description", "\"", ":", "\"">>
             \o item.description[1] \o <<"\"">>
        ELSE <<>>)
    \o (IF "total" \in DOMAIN item
        THEN <<"\"", "total", "\"", ":", ToString(item.total)>>
        ELSE <<>>)
    \o (IF "confidence" \in DOMAIN item /\ item.confidence # None
        THEN <<"\"", "confidence", "\"", ":", ToString(item.confidence[1])>>
        ELSE <<>>)
    \o <<"}">>

\* variant: the description is looked at before the evidence
DedupKey_DescriptionFirst(item) ==
    IF item.description # None
    THEN KeyPrefix("desc") \o Trim(ToLowerCase(item.description[1]))
    ELSE IF item.evidence # None /\ item.evidence[1] # <<>>
    THEN KeyPrefix("evidence") \o Trim(item.evidence[1])
    ELSE KeyPrefix("json") \o Stringify(item)

\* the key deduplicateItems derives for an item
DedupKey(item) ==
    IF item.evidence # None /\ item.evidence[1] # <<>>
    THEN KeyPrefix("evidence") \o Trim(item.evidence[1])
    ELSE IF item.description # None
    THEN KeyPrefix("desc") \o Trim(ToLowerCase(item.description[1]))
    ELSE KeyPrefix("json") \o Stringify(item)

\* the keys of the items of a list
KeysOf(seq) == {DedupKey(seq[i]) : i \in 1..Len(seq)}

\* variant: a key seen again is forgotten instead of kept
DedupStep_Toggle(acc, item) ==
    IF DedupKey(item) \in acc.seen
    THEN [seen |-> acc.seen \ {DedupKey(item)}, deduplicated |-> acc.deduplicated]
    ELSE [seen |-> acc.seen \cup {DedupKey(item)},
          deduplicated |-> Append(acc.deduplicated, item)]

\* variant: the later item of a key replaces the one kept before
DedupStep_LastWins(acc, item) ==
    IF DedupKey(item) \in acc.seen
    THEN [seen |-> acc.seen,
          deduplicated |-> Append(SelectSeq(acc.deduplicated,
                                LAMBDA o : DedupKey(o) # DedupKey(item)), item)]
    ELSE [seen |-> acc.seen \cup {DedupKey(item)},
          deduplicated |-> Append(acc.deduplicated, item)]

\* variant: nothing is ever recorded as seen
DedupStep_NeverSeen(acc, item) ==
    [seen |-> acc.seen, deduplicated |-> Append(acc.deduplicated, item)]

\* one iteration of the loop of deduplicateItems
DedupStep(acc, item) ==
    IF DedupKey(item) \in acc.seen
    THEN acc
    ELSE [seen |-> acc.seen \cup {DedupKey(item)},
          deduplicated |-> Append(acc.deduplicated, item)]

RECURSIVE DedupLoop(_, _)
DedupLoop(acc, items) ==
    IF items = <<>> THEN acc
    ELSE DedupLoop(DedupStep(acc, Head(items)), Tail(items))

deduplicateItems(items) ==
    DedupLoop([seen |-> {}, deduplicated |-> <<>>], items).deduplicated

\* item.confidence when it is a number: a missing property reads undefined
ConfidenceOf(item) ==
    IF "confidence" \in DOMAIN item THEN item.confidence ELSE None

\* variant: every item is probed for a confidence, not the first only
ConfidenceProbe_Every(items) ==
    \A i \in 1..Len(items) : ConfidenceOf(items[i]) # None

\* typeof items[0].confidence === "number"
ConfidenceProbe(items) == ConfidenceOf(items[1]) # None

\* items.reduce((sum, item) => sum + (item.confidence || 0), 0)
RECURSIVE TotalConfidence(_)
TotalConfidence(items) ==
    IF items = <<>> THEN 0
    ELSE (IF ConfidenceOf(Head(items)) # None THEN ConfidenceOf(Head(items))[1] ELSE 0)
         + TotalConfidence(Tail(items))

\* the quotient totalConfidence / items.length is kept as the exact fraction
\* of its two terms; <<>> is undefined
calculateAverageConfidence(items) ==
    IF Len(items) > 0 /\ ConfidenceProbe(items)
    THEN Some([dividend |-> TotalConfidence(items), divisor |-> Len(items)])
    ELSE None

\* what generateObject returns for a chunk (deterministic in the chunk): an
\* item of its own for an odd chunk, and in every chunk a line that other
\* chunks repeat, told apart by its total
ItemsOf(content) ==
    LET repeated == [evidence |-> Some(<<"a">>), description |-> Some(<<"a">>),
                     total |-> content, confidence |-> Some(content)]
        own == [evidence |-> None, description |-> None, total |-> content]
    IN  IF content % 2 = 1 THEN <<own, repeated>> ELSE <<repeated>>

Min(a, b) == IF a < b THEN a ELSE b

RECURSIVE Pow(_, _)
Pow(b, e) == IF e = 0 THEN 1 ELSE b * Pow(b, e - 1)

VARIABLES
    apiKey,          \* the credential the constructor resolved
    mode,            \* which entry point was called
    rateLimit,       \* the RateLimiterConfig of the run
    mainPc,          \* position of the orchestration call
    taskPc,          \* per chunk: position inside rateLimiter.execute
    attempt,         \* per chunk: attempt index of the current execute call
    wait,            \* per chunk: remaining backoff delay
    inFlight,        \* per RateLimiter instance: in-flight count
    sinceStart,      \* per RateLimiter instance: time since last admitted start
    settled,         \* per chunk: value its task promise resolved with
    isSettled,       \* per chunk: has its task promise resolved
    pageResults,     \* the pageResults array of the call
    pool,            \* streaming: tasks not yet removed from the pool
    finished,        \* streaming: the task whose result was last yielded
    yielded,         \* streaming: results delivered to the consumer
    calls,           \* per chunk: number of times the task was invoked
    backoffLog,      \* per chunk: the backoff waits performed
    lastOutcome,     \* per chunk: outcome of the latest external call
    unemitted,       \* settled tasks not yet yielded, in completion order
    outOfOrder,      \* did a task complete before an earlier chunk's task
    sinceAnyStart,   \* time since the latest admitted start of the run
    failuresSeen,    \* number of failures the external service produced
    threw,           \* did an error leave the orchestration call
    dedupInput,      \* the items of a direct call of deduplicateItems
    dedupOutput,     \* what that call returned
    dedupAgain,      \* what deduplicateItems returned for that output
    dedupPc,         \* position of the direct calls
    fnCall,          \* a direct call of a utility function: name and arguments
    fnResult,        \* what that call returned
    fnPc,            \* has the call returned
    runPc,           \* per concurrent invocation: position of the call
    runMode,         \* per concurrent invocation: entry point called
    limiterOf,       \* per concurrent invocation: its rateLimiter constant
    runTaskPc,       \* per concurrent invocation and chunk: position in execute
    sinceRunStart,   \* per concurrent invocation: time since its latest start
    progressThrows   \* the chunks for which the onProgress callback throws

vars == <<apiKey, mode, rateLimit, mainPc, taskPc, attempt, wait, inFlight, sinceStart,
          settled, isSettled, pageResults, pool, finished, yielded, calls,
          backoffLog, lastOutcome, unemitted, outOfOrder, sinceAnyStart,
          failuresSeen, threw, dedupInput, dedupOutput, dedupAgain, dedupPc,
          fnCall, fnResult, fnPc, runPc, runMode, limiterOf, runTaskPc,
          sinceRunStart, progressThrows>>

schedVars == <<inFlight, sinceStart>>
envVars == <<sinceAnyStart, failuresSeen>>
orchVars == <<apiKey, mode, rateLimit, mainPc, taskPc, attempt, wait, inFlight,
              sinceStart, settled, isSettled, pageResults, pool, finished,
              yielded, calls, backoffLog, lastOutcome, unemitted, outOfOrder,
              sinceAnyStart, failuresSeen, threw, progressThrows>>
dedupVars == <<dedupInput, dedupOutput, dedupAgain, dedupPc>>
fnVars == <<fnCall, fnResult, fnPc>>
runsVars == <<runPc, runMode, limiterOf, runTaskPc, sinceRunStart>>

\* ------------------------------------------------------------ RateLimiter
RateLimiterConfigs ==
    [maxConcurrent : {1, MaxConcurrentBound},
     delayMs : {0, MaxDelay},
     maxRetries : {0, MaxRetriesBound}]

\* variant: a RateLimiter created inside the map callback, one per task
LimiterOf_PerTask(t) == t

\* the RateLimiter instance a chunk's task calls execute on: the one
\* instance created at the top of the orchestration call
LimiterOf(t) == 1

\* variant: the spacing condition is not checked on admission
CanAdmit_NoSpacing(l) == inFlight[l] < rateLimit.maxConcurrent

\* admission: a slot is free and delayMs elapsed since the last start
CanAdmit(l) ==
    /\ inFlight[l] < rateLimit.maxConcurrent
    /\ sinceStart[l] >= rateLimit.delayMs

\* variant: the same delay before every retry
BackoffDelay_Fixed(i) == rateLimit.delayMs

\* backoff before the retry with attempt index i
BackoffDelay(i) == rateLimit.delayMs * Pow(BackoffMultiplier, i)

\* variant: every failure is retried, whatever its kind
ShouldRetry_AnyError(kind, i) == i < rateLimit.maxRetries

\* variant: one retry more than maxRetries
ShouldRetry_OneMore(kind, i) == kind = "retryable" /\ i <= rateLimit.maxRetries

\* variant: a released slot is released again before the backoff
AfterAttempt_ReleaseTwice(n, retrying) == IF retrying THEN n - 2 ELSE n - 1

\* is the failure retried
ShouldRetry(kind, i) == kind = "retryable" /\ i < rateLimit.maxRetries

\* variant: the slot is kept while the call backs off
AfterAttempt_HoldSlot(n, retrying) == IF retrying THEN n ELSE n - 1

\* in-flight count once an attempt has ended (retrying: a backoff follows)
AfterAttempt(n, retrying) == n - 1

\* ------------------------------------------------------------ page results
ErrorMessage(kind) ==
    IF kind = "retryable" THEN "Rate limit exceeded"
    ELSE IF kind = "callback" THEN "onProgress failed"
    ELSE "Extraction failed for schema"

ErrorCode(kind) ==
    IF kind = "retryable" THEN "RATE_LIMIT_ERROR"
    ELSE IF kind = "callback" THEN "EXTRACTION_ERROR"
    ELSE "SCHEMA_VALIDATION_ERROR"

SuccessResult(t) ==
    [items |-> ItemsOf(chunks[t].content), pageNumber |-> chunks[t].pageNumber,
     success |-> TRUE, error |-> Undefined, errorCode |-> Undefined]

FailureResult(t, kind) ==
    [items |-> <<>>, pageNumber |-> chunks[t].pageNumber, success |-> FALSE,
     error |-> ErrorMessage(kind), errorCode |-> ErrorCode(kind)]

\* ------------------------------------------------------------ aggregation
\* extractFromPages: allItems after the loop, every successful page having
\* pushed its items in turn
RECURSIVE SeqAllItems(_)
SeqAllItems(pr) ==
    IF pr = <<>> THEN <<>>
    ELSE (IF Head(pr).success THEN Head(pr).items ELSE <<>>) \o SeqAllItems(Tail(pr))

\* variant: the results are walked from the last to the first
RECURSIVE ParAllItems_Reversed(_)
ParAllItems_Reversed(pr) ==
    IF pr = <<>> THEN <<>>
    ELSE ParAllItems_Reversed(Tail(pr)) \o Head(pr).items

\* extractParallel: allItems after the loop over the awaited pageResults
RECURSIVE ParAllItems(_)
ParAllItems(pr) ==
    IF pr = <<>> THEN <<>>
    ELSE Head(pr).items \o ParAllItems(Tail(pr))

\* extractFromPages: pageResults.reduce((sum, r) => sum + r.items.length, 0)
RECURSIVE SeqItemsBeforeDedup(_)
SeqItemsBeforeDedup(pr) ==
    IF pr = <<>> THEN 0
    ELSE Len(Head(pr).items) + SeqItemsBeforeDedup(Tail(pr))

\* variant: the length is taken after deduplicateItems has run
ParItemsBeforeDedup_AfterDedup(pr) == Len(deduplicateItems(ParAllItems(pr)))

\* extractParallel: allItems.length taken before deduplicateItems
ParItemsBeforeDedup(pr) == Len(ParAllItems(pr))

\* variant: the successful results are counted
PagesFailed_Succeeded(pr) == Len(SelectSeq(pr, LAMBDA r : r.success))

\* pageResults.filter((r) => !r.success).length
PagesFailed(pr) == Len(SelectSeq(pr, LAMBDA r : ~r.success))

\* what extractFromPages returns for the page results pr
SeqReturn(pr) ==
    LET allItems == deduplicateItems(SeqAllItems(pr))
    IN  [items |-> allItems,
         pagesProcessed |-> Len(chunks),
         pagesFailed |-> PagesFailed(pr),
         pageResults |-> pr,
         metrics |-> [totalItems |-> Len(allItems),
                      itemsBeforeDedup |-> SeqItemsBeforeDedup(pr),
                      averageConfidence |-> calculateAverageConfidence(allItems)]]

\* what extractParallel returns for the page results pr
ParReturn(pr) ==
    LET allItems == deduplicateItems(ParAllItems(pr))
    IN  [items |-> allItems,
         pagesProcessed |-> Len(chunks),
         pagesFailed |-> PagesFailed(pr),
         pageResults |-> pr,
         metrics |-> [totalItems |-> Len(allItems),
                      itemsBeforeDedup |-> ParItemsBeforeDedup(pr),
                      averageConfidence |-> calculateAverageConfidence(allItems)]]

\* variant: the catch block rethrows
PropagatesOut_Rethrow(r) == ~r.success

\* does the error of a chunk leave the try/catch around execute
PropagatesOut(r) == FALSE

\* does this.onProgress?.(...) throw for one of the chunks S
ProgressFails(S) == S \cap progressThrows # {}

\* variant: the loop does not await execute, every chunk is submitted at once
SeqFirst_All == Chunks

\* variant: once the last chunk is recorded the loop goes back to the first
SeqNext_Resubmit(t) == IF t = NumChunks THEN {1} ELSE {t + 1}

\* sequential: chunks submitted when the call starts / after chunk t is recorded
SeqFirst == {1}
SeqNext(t) == {t + 1} \cap Chunks

\* variant: the promises are raced, the call goes on at the first one
AllResolved_Any(done) == done # {}

\* parallel: Promise.all resolves once every task promise has resolved
AllResolved(done) == done = Chunks

\* parallel: Promise.all assembles the values by task position
AssemblePageResults(s) == [i \in 1..NumChunks |-> s[i]]

\* variant: every task is raced again, not only the ones left in the pool
RaceCandidates_AllTasks(p) == Chunks

\* streaming: the promises raced, and the one Promise.race settles with when
\* several of them are already resolved (reactions run in registration order)
RaceCandidates(p) == p
RaceWinner(S) == CHOOSE t \in S : \A u \in S : t <= u

\* no direct call of deduplicateItems was made
DedupIdle ==
    /\ dedupInput = <<>>
    /\ dedupOutput = <<>>
    /\ dedupAgain = <<>>
    /\ dedupPc = "idle"

\* no direct call of a utility function was made
FnIdle ==
    /\ fnCall = [fn |-> "none"]
    /\ fnResult = <<>>
    /\ fnPc = "idle"

\* the calls that may be under way at the same time on one pipeline
Runs == {1, 2}

RunChunks == 1..ChunksPerRun

\* no second call is made next to the one under study
RunsIdle ==
    /\ runPc = [r \in Runs |-> "idle"]
    /\ runMode = [r \in Runs |-> "sequential"]
    /\ limiterOf = [r \in Runs |-> 0]
    /\ runTaskPc = [r \in Runs |-> [t \in RunChunks |-> "idle"]]
    /\ sinceRunStart = [r \in Runs |-> 0]

\* no extraction call has begun
OrchFresh ==
    /\ taskPc = [t \in Chunks |-> "idle"]
    /\ attempt = [t \in Chunks |-> 0]
    /\ wait = [t \in Chunks |-> 0]
    /\ inFlight = [l \in Chunks |-> 0]
    /\ sinceStart = [l \in Chunks |-> rateLimit.delayMs]
    /\ settled = [t \in Chunks |-> NoResult]
    /\ isSettled = [t \in Chunks |-> FALSE]
    /\ pageResults = <<>>
    /\ pool = {}
    /\ finished = 0
    /\ yielded = <<>>
    /\ calls = [t \in Chunks |-> 0]
    /\ backoffLog = [t \in Chunks |-> <<>>]
    /\ lastOutcome = [t \in Chunks |-> "none"]
    /\ unemitted = <<>>
    /\ outOfOrder = FALSE
    /\ sinceAnyStart = rateLimit.delayMs
    /\ failuresSeen = 0
    /\ threw = FALSE

\* the pipeline is constructed and no extraction call has begun
OrchIdle ==
    /\ apiKey = "key"
    /\ mainPc = "start"
    /\ OrchFresh
    /\ progressThrows = {}

\* what options.apiKey and process.env.GEMINI_API_KEY can hold
KeySources == {"", "key"}

\* options.apiKey || process.env.GEMINI_API_KEY
ResolveApiKey(optionsKey, envKey) == IF optionsKey # "" THEN optionsKey ELSE envKey

\* variant: the constructor does not look at the key
KeyAccepted_Always(key) == TRUE

\* the constructor goes on: if (!apiKey) throw new ApiKeyError(...)
KeyAccepted(key) == key # ""

\* a caller is about to construct a pipeline and to call an entry point
Init ==
    /\ \E optionsKey, envKey \in KeySources :
          apiKey = ResolveApiKey(optionsKey, envKey)
    /\ mode \in Modes
    /\ rateLimit \in RateLimiterConfigs
    /\ mainPc = "new"
    /\ OrchFresh
    /\ progressThrows = {}
    /\ DedupIdle
    /\ FnIdle
    /\ RunsIdle

\* ---------------------------------------------------------- construction
\* new ExtractionPipeline(options): throws ApiKeyError without a key
Construct ==
    /\ mainPc = "new"
    /\ mainPc' = IF KeyAccepted(apiKey) THEN "start" ELSE "configError"
    /\ UNCHANGED <<apiKey, mode, rateLimit, taskPc, attempt, wait, schedVars,
                   settled, isSettled, pageResults, pool, finished, yielded,
                   calls, backoffLog, lastOutcome, unemitted, outOfOrder,
                   envVars, threw>>
    /\ UNCHANGED <<progressThrows, dedupVars, fnVars, runsVars>>

\* ------------------------------------------------- orchestration: start
\* extractFromPages: the loop submits the first chunk
\* onProgress is called before the try block: what it throws leaves the call
StartSequential ==
    /\ mainPc = "start" /\ mode = "sequential"
    /\ IF ProgressFails(SeqFirst)
       THEN /\ threw' = TRUE
            /\ mainPc' = "done"
            /\ UNCHANGED taskPc
       ELSE /\ mainPc' = "loop"
            /\ taskPc' = [t \in Chunks |->
                            IF t \in SeqFirst THEN "waiting" ELSE "idle"]
            /\ UNCHANGED threw
    /\ UNCHANGED <<mode, rateLimit, attempt, wait, schedVars, settled, isSettled,
                   pageResults, pool, finished, yielded, calls, backoffLog,
                   lastOutcome, unemitted, outOfOrder, envVars>>
    /\ UNCHANGED <<apiKey, progressThrows, dedupVars, fnVars, runsVars>>

\* variant: the tasks are awaited one by one, only the first is launched
ParallelLaunched_First == {1}

\* the tasks chunks.map has launched when extractParallel reaches Promise.all
ParallelLaunched == Chunks

\* extractParallel: chunks.map launches a task per chunk, then Promise.all
\* onProgress is called inside the task's try block: what it throws is
\* caught and the task resolves at once with a failed page result
StartParallel ==
    /\ mainPc = "start" /\ mode = "parallel"
    /\ LET caught == ParallelLaunched \cap progressThrows
       IN  /\ taskPc' = [t \in Chunks |->
                            IF t \in caught THEN "done"
                            ELSE IF t \in ParallelLaunched THEN "waiting"
                            ELSE "idle"]
           /\ settled' = [t \in Chunks |->
                            IF t \in caught THEN FailureResult(t, "callback")
                            ELSE settled[t]]
           /\ isSettled' = [t \in Chunks |-> t \in caught \/ isSettled[t]]
           /\ lastOutcome' = [t \in Chunks |->
                                IF t \in caught THEN "callback" ELSE lastOutcome[t]]
           /\ IF AllResolved(caught)
              THEN /\ pageResults' = AssemblePageResults(settled')
                   /\ mainPc' = "done"
              ELSE /\ mainPc' = "awaitAll"
                   /\ UNCHANGED pageResults
    /\ UNCHANGED <<mode, rateLimit, attempt, wait, schedVars, pool, finished,
                   yielded, calls, backoffLog, unemitted, outOfOrder, envVars,
                   threw>>
    /\ UNCHANGED <<apiKey, progressThrows, dedupVars, fnVars, runsVars>>

\* variant: a task is launched when the loop comes to it, the first one at
\* the first pull
StreamLaunched_First == {1}

\* the tasks chunks.map has launched when extractStreaming builds the pool
StreamLaunched == Chunks

\* variant: extractStreaming is an ordinary async function, whose body
\* launches the tasks when it is called
LaunchedAtCall_Eager == Chunks

\* the tasks launched by the call of extractStreaming itself: it is an async
\* generator function, so the call runs none of its body
LaunchedAtCall == {}

\* extractStreaming(chunks, extractor) is called and returns the generator
CallStreaming ==
    /\ mainPc = "start" /\ mode = "streaming"
    /\ taskPc' = [t \in Chunks |-> IF t \in LaunchedAtCall THEN "waiting" ELSE "idle"]
    /\ mainPc' = "generator"
    /\ UNCHANGED <<mode, rateLimit, attempt, wait, schedVars, settled, isSettled,
                   pageResults, pool, finished, yielded, calls, backoffLog,
                   lastOutcome, unemitted, outOfOrder, envVars, threw>>
    /\ UNCHANGED <<apiKey, progressThrows, dedupVars, fnVars, runsVars>>

\* extractStreaming: the generator body runs at the first pull; it launches
\* every task, fills the pool and awaits the first race
StreamFirstPull ==
    /\ mainPc = "generator" /\ mode = "streaming"
    /\ taskPc' = [t \in Chunks |-> IF t \in StreamLaunched THEN "waiting" ELSE "idle"]
    /\ pool' = Chunks
    /\ mainPc' = "raceWait"
    /\ UNCHANGED <<mode, rateLimit, attempt, wait, schedVars, settled, isSettled,
                   pageResults, finished, yielded, calls, backoffLog,
                   lastOutcome, unemitted, outOfOrder, envVars, threw>>
    /\ UNCHANGED <<apiKey, progressThrows, dedupVars, fnVars, runsVars>>

\* a later pull resumes after the yield: pool.delete, loop test, next race
StreamNextPull ==
    /\ mainPc = "yielded" /\ mode = "streaming"
    /\ LET p2 == pool \ {finished}
           ready == {t \in RaceCandidates(p2) : isSettled[t]}
       IN  /\ pool' = p2
           /\ IF p2 = {}
              THEN /\ mainPc' = "done"
                   /\ UNCHANGED <<yielded, finished, unemitted>>
              ELSE IF ready # {}
              THEN /\ yielded' = Append(yielded, settled[RaceWinner(ready)])
                   /\ finished' = RaceWinner(ready)
                   /\ unemitted' = SelectSeq(unemitted,
                                             LAMBDA u : u # RaceWinner(ready))
                   /\ mainPc' = "yielded"
              ELSE /\ mainPc' = "raceWait"
                   /\ UNCHANGED <<yielded, finished, unemitted>>
    /\ UNCHANGED <<mode, rateLimit, taskPc, attempt, wait, schedVars, settled,
                   isSettled, pageResults, calls, backoffLog, lastOutcome,
                   outOfOrder, envVars, threw>>
    /\ UNCHANGED <<apiKey, progressThrows, dedupVars, fnVars, runsVars>>

\* ------------------------------------- orchestration: a chunk's execute ends
\* the continuation of the orchestration call when the execute call of
\* chunk t returns or throws, r being the page result built from it
Settle(t, r) ==
    /\ outOfOrder' = (outOfOrder \/ \E u \in 1..(t - 1) : ~isSettled[u])
    /\ settled' = [settled EXCEPT ![t] = r]
    /\ isSettled' = [isSettled EXCEPT ![t] = TRUE]
    /\ UNCHANGED pool
    /\ IF PropagatesOut(r)
       THEN /\ threw' = TRUE
            /\ mainPc' = "done"
            /\ taskPc' = [taskPc EXCEPT ![t] = "done"]
            /\ UNCHANGED <<pageResults, yielded, finished, unemitted>>
       ELSE
       CASE mode = "sequential" ->
                 /\ pageResults' = Append(pageResults, r)
                 /\ IF ProgressFails(SeqNext(t))
                    THEN /\ threw' = TRUE
                         /\ taskPc' = [taskPc EXCEPT ![t] = "done"]
                         /\ mainPc' = "done"
                    ELSE /\ UNCHANGED threw
                         /\ taskPc' = [u \in Chunks |->
                                         IF u = t THEN "done"
                                         ELSE IF u \in SeqNext(t) THEN "waiting"
                                         ELSE taskPc[u]]
                         /\ mainPc' = IF t = NumChunks THEN "done" ELSE mainPc
                 /\ UNCHANGED <<yielded, finished, unemitted>>
            [] mode = "parallel" ->
                 /\ UNCHANGED threw
                 /\ taskPc' = [taskPc EXCEPT ![t] = "done"]
                 /\ IF mainPc = "awaitAll" /\ AllResolved({u \in Chunks : isSettled'[u]})
                    THEN /\ pageResults' = AssemblePageResults(settled')
                         /\ mainPc' = "done"
                    ELSE UNCHANGED <<pageResults, mainPc>>
                 /\ UNCHANGED <<yielded, finished, unemitted>>
            [] mode = "streaming" ->
                 /\ UNCHANGED threw
                 /\ taskPc' = [taskPc EXCEPT ![t] = "done"]
                 /\ IF mainPc = "raceWait" /\ t \in RaceCandidates(pool)
                    THEN /\ yielded' = Append(yielded, r)
                         /\ finished' = t
                         /\ mainPc' = "yielded"
                         /\ UNCHANGED unemitted
                    ELSE /\ unemitted' = Append(unemitted, t)
                         /\ UNCHANGED <<yielded, finished, mainPc>>
                 /\ UNCHANGED pageResults

\* ------------------------------------------------- RateLimiter.execute
\* is chunk t at the admission step of execute: a first attempt, or a
\* retry whose backoff delay is over
AtAdmission(t) ==
    \/ taskPc[t] = "waiting"
    \/ taskPc[t] = "backoff" /\ wait[t] = 0

\* admission of the current attempt of chunk t: check and increment at once
Admit(t) ==
    /\ AtAdmission(t)
    /\ CanAdmit(LimiterOf(t))
    /\ taskPc' = [taskPc EXCEPT ![t] = "inflight"]
    /\ inFlight' = [inFlight EXCEPT ![LimiterOf(t)] = @ + 1]
    /\ sinceStart' = [sinceStart EXCEPT ![LimiterOf(t)] = 0]
    /\ calls' = [calls EXCEPT ![t] = @ + 1]
    /\ sinceAnyStart' = 0
    /\ UNCHANGED failuresSeen
    /\ UNCHANGED <<mode, rateLimit, mainPc, attempt, wait, settled, isSettled,
                   pageResults, pool, finished, yielded, backoffLog,
                   lastOutcome, unemitted, outOfOrder, threw>>
    /\ UNCHANGED <<apiKey, progressThrows, dedupVars, fnVars, runsVars>>

\* the external call of chunk t returns its items
CallSucceeds(t) ==
    /\ taskPc[t] = "inflight"
    /\ inFlight' = [inFlight EXCEPT ![LimiterOf(t)] = AfterAttempt(@, FALSE)]
    /\ lastOutcome' = [lastOutcome EXCEPT ![t] = "ok"]
    /\ Settle(t, SuccessResult(t))
    /\ UNCHANGED <<mode, rateLimit, attempt, wait, sinceStart, calls,
                   backoffLog, envVars>>
    /\ UNCHANGED <<apiKey, progressThrows, dedupVars, fnVars, runsVars>>

\* the external call of chunk t throws an error of the given kind
CallFails(t, kind) ==
    /\ taskPc[t] = "inflight"
    /\ inFlight' = [inFlight EXCEPT ![LimiterOf(t)] =
                        AfterAttempt(@, ShouldRetry(kind, attempt[t]))]
    /\ lastOutcome' = [lastOutcome EXCEPT ![t] = kind]
    /\ IF ShouldRetry(kind, attempt[t])
       THEN /\ taskPc' = [taskPc EXCEPT ![t] = "backoff"]
            /\ wait' = [wait EXCEPT ![t] = BackoffDelay(attempt[t])]
            /\ backoffLog' = [backoffLog EXCEPT
                                ![t] = Append(@, BackoffDelay(attempt[t]))]
            /\ attempt' = [attempt EXCEPT ![t] = @ + 1]
            /\ UNCHANGED <<mainPc, settled, isSettled, pageResults, pool,
                           finished, yielded, unemitted, outOfOrder, threw>>
       ELSE /\ Settle(t, FailureResult(t, kind))
            /\ UNCHANGED <<attempt, wait, backoffLog>>
    /\ UNCHANGED <<mode, rateLimit, sinceStart, calls, sinceAnyStart>>
    /\ UNCHANGED <<apiKey, progressThrows, dedupVars, fnVars, runsVars>>

CallFailsRetryable(t) ==
    /\ failuresSeen < MaxFailures
    /\ failuresSeen' = failuresSeen + 1
    /\ CallFails(t, "retryable")

CallFailsTerminal(t) ==
    /\ failuresSeen < MaxFailures
    /\ failuresSeen' = failuresSeen + 1
    /\ CallFails(t, "terminal")

\* one unit of time passes
Tick ==
    /\ sinceStart' = [l \in Chunks |-> Min(sinceStart[l] + 1, rateLimit.delayMs)]
    /\ sinceAnyStart' = Min(sinceAnyStart + 1, rateLimit.delayMs)
    /\ wait' = [t \in Chunks |-> IF wait[t] > 0 THEN wait[t] - 1 ELSE 0]
    /\ <<sinceStart', sinceAnyStart', wait'>> # <<sinceStart, sinceAnyStart, wait>>
    /\ UNCHANGED <<mode, rateLimit, mainPc, taskPc, attempt, inFlight, settled,
                   isSettled, pageResults, pool, finished, yielded, calls,
                   backoffLog, lastOutcome, unemitted, outOfOrder,
                   failuresSeen, threw>>
    /\ UNCHANGED <<apiKey, progressThrows, dedupVars, fnVars, runsVars>>

Next ==
    \/ Construct
    \/ StartSequential
    \/ StartParallel
    \/ CallStreaming
    \/ StreamFirstPull
    \/ StreamNextPull
    \/ \E t \in Chunks : Admit(t)
    \/ \E t \in Chunks : CallSucceeds(t)
    \/ \E t \in Chunks : CallFailsRetryable(t)
    \/ \E t \in Chunks : CallFailsTerminal(t)
    \/ Tick

Spec == Init /\ [][Next]_vars

\* ------------------------------------------- a streaming run, with progress
\* a caller is about to construct a pipeline and to call extractStreaming
\* with an extractor that asks for no start spacing
StreamInit == Init /\ mode = "streaming" /\ rateLimit.delayMs = 0

\* the external call of chunk t ends, one way or another
CallEnds(t) == CallSucceeds(t) \/ CallFailsRetryable(t) \/ CallFailsTerminal(t)

StreamNext ==
    \/ Construct
    \/ CallStreaming
    \/ StreamFirstPull
    \/ StreamNextPull
    \/ \E t \in Chunks : Admit(t)
    \/ \E t \in Chunks : CallSucceeds(t)
    \/ \E t \in Chunks : CallFailsRetryable(t)
    \/ \E t \in Chunks : CallFailsTerminal(t)

\* the event loop runs an admission that is possible and the external
\* service answers every call; the consumer is free never to pull again
StreamFairness ==
    /\ WF_vars(\E t \in Chunks : Admit(t))
    /\ \A t \in Chunks : WF_vars(CallEnds(t))

StreamSpec == StreamInit /\ [][StreamNext]_vars /\ StreamFairness

\* --------------------------------------------- any run, with progress
\* a caller is about to construct a pipeline and to call an entry point with
\* an extractor that asks for a start spacing and for retries
LiveInit ==
    Init /\ rateLimit.delayMs = MaxDelay /\ rateLimit.maxRetries = MaxRetriesBound

\* the caller constructs the pipeline, calls the entry point and, in
\* streaming mode, keeps pulling; the event loop runs an admission that is
\* possible, time passes and the external service answers every call
LiveFairness ==
    /\ WF_vars(Construct)
    /\ WF_vars(StartSequential)
    /\ WF_vars(StartParallel)
    /\ WF_vars(CallStreaming)
    /\ WF_vars(StreamFirstPull)
    /\ WF_vars(StreamNextPull)
    /\ WF_vars(\E t \in Chunks : Admit(t))
    /\ WF_vars(Tick)
    /\ \A t \in Chunks : WF_vars(CallEnds(t))

\* the external service fails at most twice in the run
LiveCallFailsRetryable(t) ==
    /\ failuresSeen <= 1
    /\ CallFailsRetryable(t)

LiveCallFailsTerminal(t) ==
    /\ failuresSeen <= 1
    /\ CallFailsTerminal(t)

LiveNext ==
    \/ Construct
    \/ StartSequential
    \/ StartParallel
    \/ CallStreaming
    \/ StreamFirstPull
    \/ StreamNextPull
    \/ \E t \in Chunks : Admit(t)
    \/ \E t \in Chunks : CallSucceeds(t)
    \/ \E t \in Chunks : LiveCallFailsRetryable(t)
    \/ \E t \in Chunks : LiveCallFailsTerminal(t)
    \/ Tick

LiveSpec == LiveInit /\ [][LiveNext]_vars /\ LiveFairness

\* ----------------------------------- a run with a progress callback
\* a pipeline constructed with an onProgress callback that throws for some
\* chunks; an entry point that reports progress is about to be called
ProgressInit ==
    /\ apiKey = "key"
    /\ mode \in {"sequential", "parallel"}
    /\ rateLimit = [maxConcurrent |-> MaxConcurrentBound, delayMs |-> 0,
                    maxRetries |-> 0]
    /\ mainPc = "start"
    /\ OrchFresh
    /\ progressThrows \in SUBSET Chunks
    /\ DedupIdle
    /\ FnIdle
    /\ RunsIdle

ProgressNext ==
    \/ StartSequential
    \/ StartParallel
    \/ \E t \in Chunks : Admit(t)
    \/ \E t \in Chunks : CallSucceeds(t)
    \/ \E t \in Chunks : CallFailsTerminal(t)

ProgressSpec == ProgressInit /\ [][ProgressNext]_vars

\* ------------------------------------------- deduplicateItems called directly
RECURSIVE SeqsUpTo(_, _)
SeqsUpTo(S, n) ==
    IF n = 0 THEN {<<>>}
    ELSE SeqsUpTo(S, n - 1) \cup [1..n -> S]

\* a caller holds a list of at most MaxItems items
DedupInit ==
    /\ mode = "sequential"
    /\ rateLimit = [maxConcurrent |-> 1, delayMs |-> 0, maxRetries |-> 0]
    /\ OrchIdle
    /\ dedupInput \in SeqsUpTo(Items, MaxItems)
    /\ dedupOutput = <<>>
    /\ dedupAgain = <<>>
    /\ dedupPc = "idle"
    /\ FnIdle
    /\ RunsIdle

\* deduplicateItems(dedupInput)
Deduplicate ==
    /\ dedupPc = "idle"
    /\ dedupOutput' = deduplicateItems(dedupInput)
    /\ dedupPc' = "once"
    /\ UNCHANGED <<dedupInput, dedupAgain>>
    /\ UNCHANGED <<orchVars, fnVars, runsVars>>

\* deduplicateItems applied to the output of the first call
DeduplicateAgain ==
    /\ dedupPc = "once"
    /\ dedupAgain' = deduplicateItems(dedupOutput)
    /\ dedupPc' = "twice"
    /\ UNCHANGED <<dedupInput, dedupOutput>>
    /\ UNCHANGED <<orchVars, fnVars, runsVars>>

DedupNext ==
    \/ Deduplicate
    \/ DeduplicateAgain

DedupSpec == DedupInit /\ [][DedupNext]_vars

\* ------------------------------------------------------------ grounding.ts
SourceChars == {"a", "b"}
SourceTexts == SeqsUpTo(SourceChars, MaxSourceLen)
EvidenceStrings == SeqsUpTo(SourceChars, MaxTextLen)
StartOffsets == (0 - 1)..(MaxSourceLen + 1)
EvidenceKeys == {"description", "total"}

\* String.prototype.substring(a, b) for 0 <= a <= b <= length
Substring(str, a, b) == SubSeq(str, a + 1, b)

\* the scan of indexOf from position k on
RECURSIVE IndexOfFrom(_, _, _)
IndexOfFrom(str, search, k) ==
    IF k + Len(search) > Len(str) THEN 0 - 1
    ELSE IF Substring(str, k, k + Len(search)) = search THEN k
    ELSE IndexOfFrom(str, search, k + 1)

\* variant: the position argument is not passed on
IndexOf_FromZero(str, search, position) == IndexOfFrom(str, search, 0)

\* String.prototype.indexOf(search, position): position is clamped to
\* 0..length
IndexOf(str, search, position) ==
    IndexOfFrom(str, search,
                IF position < 0 THEN 0
                ELSE IF position > Len(str) THEN Len(str) ELSE position)

\* variant: the end offset is that of the last character
EndOffsetOf_LastChar(startOffset, evidenceText) == startOffset + Len(evidenceText) - 1

\* endOffset: startOffset + evidenceText.length
EndOffsetOf(startOffset, evidenceText) == startOffset + Len(evidenceText)

\* a result is <<>> for null and <<span>> for a span
computeEvidenceOffsets(sourceText, evidenceText, startFrom) ==
    IF evidenceText = <<>> \/ sourceText = <<>> THEN None
    ELSE LET startOffset == IndexOf(sourceText, evidenceText, startFrom)
         IN  IF startOffset = 0 - 1 THEN None
             ELSE Some([text |-> evidenceText,
                        startOffset |-> startOffset,
                        endOffset |-> EndOffsetOf(startOffset, evidenceText)])

\* variant: the search goes on after the end of the previous match
SearchFrom_PreviousEnd(results) ==
    IF results = <<>> THEN 0 ELSE results[Len(results)].endOffset

\* computeMultipleOffsets: the startFrom its call of computeEvidenceOffsets
\* uses (the argument is left out, the default applies)
SearchFrom(results) == 0

\* computeMultipleOffsets: if (span) results.push(span)
PushSpan(results, span) == IF span # None THEN Append(results, span[1]) ELSE results

RECURSIVE MultipleLoop(_, _, _)
MultipleLoop(results, sourceText, evidenceTexts) ==
    IF evidenceTexts = <<>> THEN results
    ELSE MultipleLoop(
            PushSpan(results,
                     computeEvidenceOffsets(sourceText, Head(evidenceTexts),
                                            SearchFrom(results))),
            sourceText, Tail(evidenceTexts))

computeMultipleOffsets(sourceText, evidenceTexts) ==
    MultipleLoop(<<>>, sourceText, evidenceTexts)

\* variant: a key is assigned only when its span resolves
ResultKeys_Resolved(sourceText, rawEvidence) ==
    {key \in DOMAIN rawEvidence :
        /\ rawEvidence[key] # None
        /\ computeEvidenceOffsets(sourceText, rawEvidence[key][1], 0) # None}

\* processRawEvidence: the keys result[key] is assigned for
ResultKeys(sourceText, rawEvidence) == DOMAIN rawEvidence

\* rawEvidence maps a key to <<>> (undefined) or <<text>> (a raw span)
processRawEvidence(sourceText, rawEvidence) ==
    [key \in ResultKeys(sourceText, rawEvidence) |->
        IF rawEvidence[key] # None /\ rawEvidence[key][1] # <<>>
        THEN computeEvidenceOffsets(sourceText, rawEvidence[key][1], 0)
        ELSE None]

\* ------------------------------------------- the config of the RateLimiter
ConfigFields == {"maxConcurrent", "delayMs", "maxRetries", "backoffMultiplier"}

\* DEFAULT_RATE_LIMIT: one call at a time, 7 s between starts, 3 retries,
\* backoff doubled
DEFAULT_RATE_LIMIT ==
    [maxConcurrent |-> 1, delayMs |-> 7000, maxRetries |-> 3,
     backoffMultiplier |-> 2]

\* values an extractor sets a field to
SuppliedValues == {5, 10}

\* extractor.rateLimit: undefined, or an object that sets some of the fields
ExtractorRateLimits ==
    {None} \cup {Some(c) : c \in UNION {[F -> SuppliedValues] :
                                            F \in SUBSET ConfigFields}}

\* { ...DEFAULT_RATE_LIMIT, ...extractor.rateLimit }
SpreadOverDefault(supplied) ==
    IF supplied = None THEN DEFAULT_RATE_LIMIT
    ELSE [f \in ConfigFields \cup DOMAIN supplied[1] |->
             IF f \in DOMAIN supplied[1] THEN supplied[1][f]
             ELSE DEFAULT_RATE_LIMIT[f]]

\* extractor.rateLimit || DEFAULT_RATE_LIMIT: an object is truthy whatever
\* fields it has
OrDefault(supplied) ==
    IF supplied = None THEN DEFAULT_RATE_LIMIT ELSE supplied[1]

\* the object each entry point hands to new RateLimiter
RateLimiterConfigOf(m, supplied) ==
    IF m = "sequential" THEN OrDefault(supplied) ELSE SpreadOverDefault(supplied)

ConfigCalls ==
    [fn : {"rateLimiterConfig"}, mode : Modes, rateLimit : ExtractorRateLimits]

\* --------------------------------------- utility functions called directly
OffsetsCalls ==
    [fn : {"computeEvidenceOffsets"}, sourceText : SourceTexts,
     evidenceText : EvidenceStrings, startFrom : StartOffsets]

MultipleCalls ==
    [fn : {"computeMultipleOffsets"}, sourceText : SourceTexts,
     evidenceTexts : SeqsUpTo(EvidenceStrings, MaxTexts)]

RawEvidences ==
    UNION {[K -> {None} \cup {Some(x) : x \in EvidenceStrings}] :
              K \in SUBSET EvidenceKeys}

RawEvidenceCalls ==
    [fn : {"processRawEvidence"}, sourceText : SourceTexts,
     rawEvidence : RawEvidences]

Confidences == {0, 1, 3}

ConfidenceCalls ==
    [fn : {"calculateAverageConfidence"},
     items : SeqsUpTo([confidence : {None} \cup {Some(c) : c \in Confidences}],
                      MaxItems)]

\* a caller is about to call one of the utility functions
FnInit ==
    /\ mode = "sequential"
    /\ rateLimit = [maxConcurrent |-> 1, delayMs |-> 0, maxRetries |-> 0]
    /\ OrchIdle
    /\ DedupIdle
    /\ fnCall \in OffsetsCalls \cup MultipleCalls \cup RawEvidenceCalls
                    \cup ConfidenceCalls \cup ConfigCalls
    /\ fnResult = <<>>
    /\ fnPc = "idle"
    /\ RunsIdle

Return(value) ==
    /\ fnPc = "idle"
    /\ fnResult' = value
    /\ fnPc' = "returned"
    /\ UNCHANGED <<fnCall, orchVars, dedupVars, runsVars>>

ComputeEvidenceOffsets ==
    /\ fnCall.fn = "computeEvidenceOffsets"
    /\ Return(computeEvidenceOffsets(fnCall.sourceText, fnCall.evidenceText,
                                     fnCall.startFrom))

ComputeMultipleOffsets ==
    /\ fnCall.fn = "computeMultipleOffsets"
    /\ Return(computeMultipleOffsets(fnCall.sourceText, fnCall.evidenceTexts))

ProcessRawEvidence ==
    /\ fnCall.fn = "processRawEvidence"
    /\ Return(processRawEvidence(fnCall.sourceText, fnCall.rawEvidence))

CalculateAverageConfidence ==
    /\ fnCall.fn = "calculateAverageConfidence"
    /\ Return(calculateAverageConfidence(fnCall.items))

\* the first lines of an entry point, up to new RateLimiter(config)
BuildRateLimiterConfig ==
    /\ fnCall.fn = "rateLimiterConfig"
    /\ Return(RateLimiterConfigOf(fnCall.mode, fnCall.rateLimit))

FnNext ==
    \/ BuildRateLimiterConfig
    \/ CalculateAverageConfidence
    \/ ComputeEvidenceOffsets
    \/ ComputeMultipleOffsets
    \/ ProcessRawEvidence

FnSpec == FnInit /\ [][FnNext]_vars

\* ------------------------------------------------- concurrent invocations
\* Two calls of the entry points under way at once on one pipeline, followed
\* through their rate limiters only.
orchRest == <<apiKey, mode, rateLimit, mainPc, taskPc, attempt, wait, settled,
              isSettled, pageResults, pool, finished, yielded, calls,
              backoffLog, lastOutcome, unemitted, outOfOrder, sinceAnyStart,
              failuresSeen, threw, progressThrows>>

\* variant: one RateLimiter kept by the pipeline and used by every call
NewRateLimiter_Shared(r) == 1

\* const rateLimiter = new RateLimiter(config): an instance of its own for
\* the call
NewRateLimiter(r) == r

\* a constructed pipeline, an extractor whose calls are not retried
RunsInit ==
    /\ mode = "sequential"
    /\ rateLimit \in RateLimiterConfigs
    /\ rateLimit.maxRetries = 0
    /\ OrchIdle
    /\ DedupIdle
    /\ FnIdle
    /\ RunsIdle

\* an entry point is called: it creates its rate limiter
Invoke(r, m) ==
    /\ runPc[r] = "idle"
    /\ runPc' = [runPc EXCEPT ![r] = "running"]
    /\ runMode' = [runMode EXCEPT ![r] = m]
    /\ limiterOf' = [limiterOf EXCEPT ![r] = NewRateLimiter(r)]
    /\ inFlight' = [inFlight EXCEPT ![NewRateLimiter(r)] = 0]
    /\ sinceStart' = [sinceStart EXCEPT ![NewRateLimiter(r)] = rateLimit.delayMs]
    /\ runTaskPc' = [runTaskPc EXCEPT ![r] = [t \in RunChunks |-> "waiting"]]
    /\ sinceRunStart' = [sinceRunStart EXCEPT ![r] = rateLimit.delayMs]
    /\ UNCHANGED <<orchRest, dedupVars, fnVars>>

\* has the call reached rateLimiter.execute for chunk t: the sequential loop
\* awaits each chunk before the next, the other two start every chunk at once
RunTurn(r, t) ==
    runMode[r] = "sequential"
        => \A u \in 1..(t - 1) : runTaskPc[r][u] \in {"done", "failed"}

RunAdmit(r, t) ==
    /\ runPc[r] = "running"
    /\ runTaskPc[r][t] = "waiting"
    /\ RunTurn(r, t)
    /\ CanAdmit(limiterOf[r])
    /\ inFlight' = [inFlight EXCEPT ![limiterOf[r]] = @ + 1]
    /\ sinceStart' = [sinceStart EXCEPT ![limiterOf[r]] = 0]
    /\ sinceRunStart' = [sinceRunStart EXCEPT ![r] = 0]
    /\ runTaskPc' = [runTaskPc EXCEPT ![r][t] = "calling"]
    /\ UNCHANGED <<runPc, runMode, limiterOf, orchRest, dedupVars, fnVars>>

\* the attempt of chunk t ends and, not being retried, releases its slot
RunCallEnds(r, t, outcome) ==
    /\ inFlight' = [inFlight EXCEPT ![limiterOf[r]] = AfterAttempt(@, FALSE)]
    /\ runTaskPc' = [runTaskPc EXCEPT ![r][t] = outcome]
    /\ UNCHANGED <<runPc, runMode, limiterOf, sinceStart, sinceRunStart,
                   orchRest, dedupVars, fnVars>>

RunCallSucceeds(r, t) ==
    /\ runPc[r] = "running"
    /\ runTaskPc[r][t] = "calling"
    /\ RunCallEnds(r, t, "done")

\* the failure is caught into a failed page result
RunCallFails(r, t) ==
    /\ runPc[r] = "running"
    /\ runTaskPc[r][t] = "calling"
    /\ RunCallEnds(r, t, "failed")

RunReturns(r) ==
    /\ runPc[r] = "running"
    /\ \A t \in RunChunks : runTaskPc[r][t] \in {"done", "failed"}
    /\ runPc' = [runPc EXCEPT ![r] = "returned"]
    /\ UNCHANGED <<runMode, limiterOf, runTaskPc, sinceRunStart, inFlight,
                   sinceStart, orchRest, dedupVars, fnVars>>

RunTick ==
    /\ sinceStart' = [l \in Chunks |-> Min(sinceStart[l] + 1, rateLimit.delayMs)]
    /\ sinceRunStart' =
           [r \in Runs |-> Min(sinceRunStart[r] + 1, rateLimit.delayMs)]
    /\ <<sinceStart', sinceRunStart'>> # <<sinceStart, sinceRunStart>>
    /\ UNCHANGED <<runPc, runMode, limiterOf, runTaskPc, inFlight, orchRest,
                   dedupVars, fnVars>>

RunsNext ==
    \/ \E r \in Runs, m \in Modes : Invoke(r, m)
    \/ \E r \in Runs, t \in RunChunks : RunAdmit(r, t)
    \/ \E r \in Runs, t \in RunChunks : RunCallSucceeds(r, t)
    \/ \E r \in Runs, t \in RunChunks : RunCallFails(r, t)
    \/ \E r \in Runs : RunReturns(r)
    \/ RunTick

RunsSpec == RunsInit /\ [][RunsNext]_vars

\* ------------------------------------------------------ the chunk producers
ChunkChars == {"a", ".", " ", "\n"}
ChunkTexts == SeqsUpTo(ChunkChars, MaxChunkText)
PageChars == {"a", " ", "-"}
PageTexts == SeqsUpTo(PageChars, MaxChunkText)
PageDelimiters == {<<"-">>, <<"-", "-">>}

\* String.prototype.slice(a, b) for 0 <= a, 0 <= b
Slice(str, a, b) == SubSeq(str, a + 1, Min(b, Len(str)))

\* the scan of lastIndexOf from position k down
RECURSIVE LastIndexOfFrom(_, _, _)
LastIndexOfFrom(str, search, k) ==
    IF k < 0 THEN 0 - 1
    ELSE IF Substring(str, k, k + Len(search)) = search THEN k
    ELSE LastIndexOfFrom(str, search, k - 1)

\* String.prototype.lastIndexOf(search, position): the greatest index not
\* above position at which search begins; position is clamped to 0..length
LastIndexOf(str, search, position) ==
    LastIndexOfFrom(str, search,
                    Min(IF position < 0 THEN 0 ELSE Min(position, Len(str)),
                        Len(str) - Len(search)))

\* String.prototype.split(delimiter) for a delimiter that is not empty
RECURSIVE Split(_, _)
Split(str, delimiter) ==
    LET at == IndexOf(str, delimiter, 0)
    IN  IF at < 0 THEN <<str>>
        ELSE <<Substring(str, 0, at)>>
                 \o Split(Slice(str, at + Len(delimiter), Len(str)), delimiter)

\* variant: the page number is the index of the page
PageNumberOfIndex_ZeroBased(index) == index

\* pageNumber: index + 1
PageNumberOfIndex(index) == index + 1

\* splitIntoPages(text, delimiter); index is the 0-based index of map
splitIntoPages(text, delimiter) ==
    LET pages == Split(text, delimiter)
    IN  [i \in 1..Len(pages) |->
            [content |-> Trim(pages[i]), pageNumber |-> PageNumberOfIndex(i - 1)]]

\* the split index chunkBySize chooses for the remaining text
SplitIndexOf(remaining, maxChunkSize) ==
    IF Len(remaining) > maxChunkSize
    THEN LET paragraphBreak == LastIndexOf(remaining, <<"\n", "\n">>, maxChunkSize)
             sentenceBreak == LastIndexOf(remaining, <<".", " ">>, maxChunkSize)
         IN  IF 2 * paragraphBreak > maxChunkSize THEN paragraphBreak
             ELSE IF 2 * sentenceBreak > maxChunkSize THEN sentenceBreak + 1
             ELSE maxChunkSize
    ELSE Len(remaining)

ChunkCalls == [fn : {"chunkBySize"}, text : ChunkTexts,
               maxChunkSize : 1..MaxChunkSizeBound]

PageCalls == [fn : {"splitIntoPages"}, text : PageTexts,
              delimiter : PageDelimiters]

\* a caller is about to call one of the chunk producers
ChunkInit ==
    /\ mode = "sequential"
    /\ rateLimit = [maxConcurrent |-> 1, delayMs |-> 0, maxRetries |-> 0]
    /\ OrchIdle
    /\ DedupIdle
    /\ fnCall \in ChunkCalls \cup PageCalls
    /\ fnResult = <<>>
    /\ fnPc = "idle"
    /\ RunsIdle

\* chunkBySize: the lines before the loop
ChunkBySizeEnter ==
    /\ fnPc = "idle" /\ fnCall.fn = "chunkBySize"
    /\ fnResult' = [chunks |-> <<>>, remaining |-> fnCall.text, pageNumber |-> 1]
    /\ fnPc' = "loop"
    /\ UNCHANGED <<fnCall, orchVars, dedupVars, runsVars>>

\* chunkBySize: one iteration of the while loop
ChunkBySizeIterate ==
    /\ fnPc = "loop" /\ Len(fnResult.remaining) > 0
    /\ LET remaining == fnResult.remaining
           splitIndex == SplitIndexOf(remaining, fnCall.maxChunkSize)
       IN  fnResult' =
             [chunks |-> Append(fnResult.chunks,
                                [content |-> Trim(Slice(remaining, 0, splitIndex)),
                                 pageNumber |-> fnResult.pageNumber]),
              remaining |-> Trim(Slice(remaining, splitIndex, Len(remaining))),
              pageNumber |-> fnResult.pageNumber + 1]
    /\ UNCHANGED <<fnCall, fnPc, orchVars, dedupVars, runsVars>>

\* chunkBySize: the loop test fails and chunks is returned
ChunkBySizeReturn ==
    /\ fnPc = "loop" /\ Len(fnResult.remaining) = 0
    /\ fnPc' = "returned"
    /\ UNCHANGED <<fnCall, fnResult, orchVars, dedupVars, runsVars>>

SplitIntoPages ==
    /\ fnCall.fn = "splitIntoPages"
    /\ Return(splitIntoPages(fnCall.text, fnCall.delimiter))

\* the chunks the producer called has returned
Produced == IF fnCall.fn = "chunkBySize" THEN fnResult.chunks ELSE fnResult

ChunkNext ==
    \/ ChunkBySizeEnter
    \/ ChunkBySizeIterate
    \/ ChunkBySizeReturn
    \/ SplitIntoPages

ChunkSpec == ChunkInit /\ [][ChunkNext]_vars

\* ---------------------------------------------------------- GroundingViewer
ViewerTexts == SeqsUpTo(SourceChars, MaxViewerText)

\* the spans a highlight can carry over a text: offsets from 0 to one past
\* the length of the text, in either order
SpansOver(text) ==
    [startOffset : 0..(Len(text) + 1), endOffset : 0..(Len(text) + 1)]

\* a highlight is its span and its id, the position it has in the list
HighlightLists(text) ==
    {[i \in 1..Len(f) |-> [id |-> i, span |-> f[i]]] :
        f \in SeqsUpTo(SpansOver(text), MaxHighlights)}

\* Array.prototype.sort with (a, b) => a.span.startOffset - b.span.startOffset:
\* a stable sort, here by insertion
RECURSIVE InsertByStart(_, _)
InsertByStart(sorted, h) ==
    IF sorted = <<>> THEN <<h>>
    ELSE IF sorted[Len(sorted)].span.startOffset <= h.span.startOffset
    THEN Append(sorted, h)
    ELSE Append(InsertByStart(SubSeq(sorted, 1, Len(sorted) - 1), h),
                sorted[Len(sorted)])

RECURSIVE SortByStart(_)
SortByStart(hs) ==
    IF hs = <<>> THEN <<>>
    ELSE InsertByStart(SortByStart(SubSeq(hs, 1, Len(hs) - 1)), hs[Len(hs)])

\* the test that skips a highlight
SkipsHighlight(sourceText, cursor, span) ==
    span.startOffset < cursor \/ span.endOffset > Len(sourceText)

\* the body of the for loop over sortedHighlights; acc is result and cursor
SegmentStep(sourceText, acc, highlight) ==
    LET startOffset == highlight.span.startOffset
        endOffset == highlight.span.endOffset
        before == IF startOffset > acc.cursor
                  THEN <<[text |-> Slice(sourceText, acc.cursor, startOffset),
                          highlight |-> None]>>
                  ELSE <<>>
    IN  IF SkipsHighlight(sourceText, acc.cursor, highlight.span) THEN acc
        ELSE [result |-> acc.result \o before
                           \o <<[text |-> Slice(sourceText, startOffset, endOffset),
                                 highlight |-> Some(highlight)]>>,
              cursor |-> endOffset]

RECURSIVE SegmentLoop(_, _, _)
SegmentLoop(sourceText, acc, hs) ==
    IF hs = <<>> THEN acc
    ELSE SegmentLoop(sourceText, SegmentStep(sourceText, acc, Head(hs)), Tail(hs))

\* the segments GroundingViewer renders
segments(sourceText, highlights) ==
    LET acc == SegmentLoop(sourceText, [result |-> <<>>, cursor |-> 0],
                           SortByStart(highlights))
    IN  IF acc.cursor < Len(sourceText)
        THEN Append(acc.result,
                    [text |-> Slice(sourceText, acc.cursor, Len(sourceText)),
                     highlight |-> None])
        ELSE acc.result

ViewerCalls ==
    UNION {[fn : {"GroundingViewer"}, sourceText : {text},
            highlights : HighlightLists(text)] : text \in ViewerTexts}

\* GroundingViewer is about to be rendered with a text and highlights
ViewerInit ==
    /\ mode = "sequential"
    /\ rateLimit = [maxConcurrent |-> 1, delayMs |-> 0, maxRetries |-> 0]
    /\ OrchIdle
    /\ DedupIdle
    /\ fnCall \in ViewerCalls
    /\ fnResult = <<>>
    /\ fnPc = "idle"
    /\ RunsIdle

\* the component renders: the two useMemo computations
RenderSegments ==
    /\ fnCall.fn = "GroundingViewer"
    /\ Return(segments(fnCall.sourceText, fnCall.highlights))

ViewerNext == RenderSegments

ViewerSpec == ViewerInit /\ [][ViewerNext]_vars

TypeOK ==
    /\ mainPc \in {"new", "configError", "start", "generator", "loop",
                  "awaitAll", "raceWait", "yielded", "done"}
    /\ \A t \in Chunks : taskPc[t] \in {"idle", "waiting", "inflight", "backoff", "done"}

\* ------------------------------------------------------------------ claims
InFlightCalls == {t \in Chunks : taskPc[t] = "inflight"}
Concurrent == mode \in {"parallel", "streaming"}
Output == IF mode = "streaming" THEN yielded ELSE pageResults
PagesOf(out) == [j \in 1..Len(out) |-> out[j].pageNumber]
NoDuplicates(seq) == \A a, b \in 1..Len(seq) : a # b => seq[a] # seq[b]

\* C1: with maxConcurrent = k, the calls admitted and not yet completed are
\* never more than k, however many chunks were submitted at once
C1_ConcurrencyBound == Cardinality(InFlightCalls) <= rateLimit.maxConcurrent

\* C1 witness: all k slots taken and a further caller held back by the
\* concurrency condition alone
C1_Witness ==
    /\ Concurrent
    /\ Cardinality(InFlightCalls) = rateLimit.maxConcurrent
    /\ \E t \in Chunks : AtAdmission(t)
    /\ sinceStart[1] >= rateLimit.delayMs

\* C2: every admitted call start (first attempt or retry, of any chunk) comes
\* at least delayMs after the most recent admitted start
C2_StartSpacing ==
    [][calls' # calls => sinceAnyStart >= rateLimit.delayMs]_vars

\* C2 witness: spacing is positive, a retry was admitted after another
\* chunk's start
C2_Witness ==
    /\ rateLimit.delayMs > 0
    /\ \E t, u \in Chunks :
         /\ t # u
         /\ attempt[t] > 0 /\ taskPc[t] = "inflight"
         /\ calls[u] > 0

\* C3: no chunk failure leaves the orchestration call; when the call is over
\* there is exactly one result per chunk, failed with a message when the
\* chunk's call failed and successful with its items when it succeeded
C3_ErrorIsolation ==
    /\ ~threw
    /\ mainPc = "done" =>
         /\ Len(Output) = NumChunks
         /\ \A t \in Chunks : calls[t] >= 1
         /\ \A t \in Chunks :
              \E j \in 1..Len(Output) :
                 /\ Output[j].pageNumber = chunks[t].pageNumber
                 /\ \A k \in 1..Len(Output) :
                       Output[k].pageNumber = chunks[t].pageNumber => k = j
                 /\ IF lastOutcome[t] = "ok"
                    THEN /\ Output[j].success
                         /\ Output[j].items = ItemsOf(chunks[t].content)
                    ELSE /\ ~Output[j].success
                         /\ Output[j].error \notin {"", Undefined}

\* C3 witness: the call is over, chunk 2 failed terminally, chunks 1 and 3
\* succeeded
C3_Witness ==
    /\ mainPc = "done"
    /\ lastOutcome[2] = "terminal"
    /\ lastOutcome[1] = "ok" /\ lastOutcome[3] = "ok"

\* C4: streaming emits every chunk's pageNumber at most once at any time,
\* after N results the next pull ends the sequence, and a finished sequence
\* has emitted exactly N results
C4_StreamingExactlyOnce ==
    mode = "streaming" =>
        /\ NoDuplicates(PagesOf(yielded))
        /\ \A j \in 1..Len(yielded) :
              \E t \in Chunks : yielded[j].pageNumber = chunks[t].pageNumber
        /\ (mainPc = "yielded" /\ Len(yielded) = NumChunks) => pool = {finished}
        /\ mainPc = "done" => Len(yielded) = NumChunks

\* C4 witness: a finished stream, out of input order, with a failed chunk
C4_Witness ==
    /\ mode = "streaming" /\ mainPc = "done"
    /\ \E t \in Chunks : lastOutcome[t] # "ok"
    /\ yielded[1].pageNumber # chunks[1].pageNumber

\* C5: streaming emits results in the order the tasks completed: a result
\* is yielded only when no task that completed earlier is still unemitted
C5_EmissionIsCompletionOrder ==
    [][(Len(yielded') > Len(yielded) /\ unemitted # <<>>) =>
          yielded'[Len(yielded')].pageNumber = chunks[Head(unemitted)].pageNumber]_vars

\* C6: bounded-parallel returns only once every task has finished, and its
\* pageResults are in input order
C6_ParallelInputOrder ==
    mode = "parallel" =>
        /\ mainPc # "done" => pageResults = <<>>
        /\ mainPc = "done" =>
              /\ \A t \in Chunks : taskPc[t] = "done"
              /\ Len(pageResults) = NumChunks
              /\ \A i \in Chunks : pageResults[i].pageNumber = chunks[i].pageNumber

\* C6 witness: a finished parallel call whose tasks completed out of order
C6_Witness ==
    /\ mode = "parallel" /\ mainPc = "done"
    /\ outOfOrder

\* C7: in sequential mode chunk i+1 is not submitted before chunk i's result
\* is recorded, and pageResults is in input order
C7_SequentialOrder ==
    mode = "sequential" =>
        /\ \A t \in Chunks : taskPc[t] # "idle" => Len(pageResults) >= t - 1
        /\ \A j \in 1..Len(pageResults) :
              pageResults[j].pageNumber = chunks[j].pageNumber

\* C7 witness: chunk 2 submitted after chunk 1 failed with its retries used up
C7_Witness ==
    /\ mode = "sequential"
    /\ taskPc[2] = "inflight"
    /\ attempt[1] > 0 /\ lastOutcome[1] = "retryable"

\* C8: a call backing off holds no slot (the in-flight count is the number of
\* calls between admission and the end of their attempt), and an attempt,
\* retry or not, starts only when a slot is free and delayMs has elapsed
C8_BackoffReleasesSlot ==
    /\ [](inFlight[1] = Cardinality(InFlightCalls))
    /\ [][\A t \in Chunks :
            (taskPc[t] # "inflight" /\ taskPc'[t] = "inflight") =>
                /\ Cardinality(InFlightCalls) < rateLimit.maxConcurrent
                /\ sinceAnyStart >= rateLimit.delayMs]_vars

\* C8 witness: with one slot, a call is in flight while another backs off
C8_Witness ==
    /\ rateLimit.maxConcurrent = 1
    /\ \E t, u \in Chunks :
         /\ taskPc[t] = "backoff" /\ wait[t] > 0
         /\ taskPc[u] = "inflight"

\* C9: the backoff before the retry with attempt index i is
\* delayMs * 2^i, each one twice the previous
C9_ExponentialBackoff ==
    \A t \in Chunks :
        \A j \in 1..Len(backoffLog[t]) :
            /\ backoffLog[t][j] = rateLimit.delayMs * Pow(2, j - 1)
            /\ j > 1 => backoffLog[t][j] = 2 * backoffLog[t][j - 1]

\* C9 witness: a call retried twice with a positive spacing
C9_Witness ==
    /\ rateLimit.delayMs > 0
    /\ \E t \in Chunks : Len(backoffLog[t]) = 2

\* C10: after a non-retryable failure the task is not invoked again, no
\* backoff is performed and the chunk is recorded as failed; when the first
\* attempt fails that way the task was invoked exactly once
C10_TerminalImmediate ==
    \A t \in Chunks :
        lastOutcome[t] = "terminal" =>
            /\ taskPc[t] = "done"
            /\ isSettled[t] /\ ~settled[t].success
            /\ calls[t] = attempt[t] + 1
            /\ Len(backoffLog[t]) = attempt[t]
            /\ wait[t] = 0
            /\ attempt[t] = 0 => (calls[t] = 1 /\ backoffLog[t] = <<>>)

\* C10 witness: a first attempt failed terminally although retries were left
C10_Witness ==
    \E t \in Chunks :
        /\ lastOutcome[t] = "terminal" /\ attempt[t] = 0
        /\ rateLimit.maxRetries > 0

AttemptsEnded(t) == Len(backoffLog[t]) + (IF isSettled[t] THEN 1 ELSE 0)

RECURSIVE SumOver(_, _)
SumOver(f, S) ==
    IF S = {} THEN 0
    ELSE LET x == CHOOSE y \in S : TRUE IN f[x] + SumOver(f, S \ {x})

\* C12: the in-flight count is the number of admissions minus the number of
\* attempts that ended (in success, terminal failure, or retryable failure
\* before backoff); it is never negative, and it is 0 once every execute call
\* of the run has returned or thrown
C12_SlotAccountingBalanced ==
    /\ inFlight[1] >= 0
    /\ inFlight[1] = SumOver(calls, Chunks)
                        - SumOver([t \in Chunks |-> AttemptsEnded(t)], Chunks)
    /\ (mainPc # "start" /\ \A t \in Chunks : taskPc[t] \in {"idle", "done"})
          => inFlight[1] = 0

\* C12 witness: every execute call of a concurrent run has ended, one in
\* success, one in a terminal failure and one after a retry
C12_Witness ==
    /\ Concurrent
    /\ \A t \in Chunks : taskPc[t] = "done"
    /\ \E t \in Chunks : lastOutcome[t] = "ok"
    /\ \E t \in Chunks : lastOutcome[t] = "terminal"
    /\ \E t \in Chunks : backoffLog[t] # <<>>
    /\ inFlight[1] = 0

\* C13: in a parallel run over at least k = maxConcurrent chunks with no start
\* spacing, while no external call has returned yet and every launched task
\* has attempted admission (no admission step is left to take), exactly k
\* calls are in flight
C13_BoundAttained ==
    ( /\ mode = "parallel" /\ mainPc = "awaitAll"
      /\ rateLimit.delayMs = 0
      /\ NumChunks >= rateLimit.maxConcurrent
      /\ \A t \in Chunks : lastOutcome[t] = "none"
      /\ ~ENABLED (\E t \in Chunks : Admit(t)) )
    => Cardinality(InFlightCalls) = rateLimit.maxConcurrent

\* C13 witness: more chunks than slots, k > 1 calls in flight, none has
\* returned, and another launched task is held back
C13_Witness ==
    /\ mode = "parallel" /\ mainPc = "awaitAll"
    /\ rateLimit.delayMs = 0
    /\ rateLimit.maxConcurrent = MaxConcurrentBound
    /\ MaxConcurrentBound > 1 /\ NumChunks > MaxConcurrentBound
    /\ \A t \in Chunks : lastOutcome[t] = "none"
    /\ ~ENABLED (\E t \in Chunks : Admit(t))
    /\ \E t \in Chunks : taskPc[t] = "waiting"
    /\ Cardinality(InFlightCalls) = MaxConcurrentBound

\* the tier an item's key comes from
KeyTier(item) ==
    IF item.evidence # None /\ item.evidence[1] # <<>> THEN 1
    ELSE IF item.description # None THEN 2
    ELSE 3

\* do two items count as duplicates of each other
SameByTier(x, y) ==
    /\ KeyTier(x) = KeyTier(y)
    /\ KeyTier(x) = 1 => Trim(x.evidence[1]) = Trim(y.evidence[1])
    /\ KeyTier(x) = 2 =>
          Trim(ToLowerCase(x.description[1])) = Trim(ToLowerCase(y.description[1]))
    /\ KeyTier(x) = 3 => x = y

\* the positions of a list that hold no duplicate of an earlier item
FirstOfTheirKind(seq) ==
    {b \in 1..Len(seq) : \A a \in 1..(b - 1) : ~SameByTier(seq[a], seq[b])}

\* C21: an item is dropped exactly when an earlier item is its duplicate by
\* the first applicable tier: both have a non-empty evidence text and the
\* texts are equal after trimming (case kept, descriptions ignored); or both
\* have none and have string descriptions equal after lower-casing and
\* trimming; or both have neither and are structurally equal
C21_KeyTiers ==
    dedupPc # "idle" =>
        /\ Len(dedupOutput) = Cardinality(FirstOfTheirKind(dedupInput))
        /\ \A b \in FirstOfTheirKind(dedupInput) :
              dedupOutput[Cardinality({a \in FirstOfTheirKind(dedupInput) : a <= b})]
                  = dedupInput[b]

\* C21 witness: the second item has no evidence text and a description that
\* differs from the first one's in case and trailing space only, and is
\* dropped; the third has the first one's description and an evidence text,
\* and is kept
C21_Witness ==
    /\ dedupPc = "once"
    /\ Len(dedupInput) = 3
    /\ dedupInput[1].evidence = None /\ dedupInput[1].description = Some(<<"a">>)
    /\ dedupInput[2].evidence = Some(<<>>)
    /\ dedupInput[2].description = Some(<<"A", " ">>)
    /\ dedupInput[3].evidence = Some(<<"a">>)
    /\ dedupInput[3].description = Some(<<"a">>)
    /\ dedupOutput = <<dedupInput[1], dedupInput[3]>>

\* ------------------------------------------------------ claims: aggregation
\* the call of extractFromPages or extractParallel has returned
Returned == mainPc = "done" /\ mode \in {"sequential", "parallel"} /\ ~threw

\* what the call returned
AggregateResult ==
    IF mode = "sequential" THEN SeqReturn(pageResults) ELSE ParReturn(pageResults)

\* the chunks whose page result is a success
Succeeded == {t \in Chunks : lastOutcome[t] = "ok"}

\* the page results of a sequential run in which the service gives every
\* chunk the answer it gave in this run
ServiceAnswers ==
    [t \in 1..NumChunks |->
        IF lastOutcome[t] = "ok" THEN SuccessResult(t)
        ELSE FailureResult(t, lastOutcome[t])]

UniqueKeys(seq) ==
    \A a, b \in 1..Len(seq) : a # b => DedupKey(seq[a]) # DedupKey(seq[b])

RECURSIVE ConcatItems(_)
ConcatItems(results) ==
    IF results = <<>> THEN <<>>
    ELSE Head(results).items \o ConcatItems(Tail(results))

\* C14: a sequential run returns what extractFromPages computes from the
\* service's answers in input order, and a parallel run in which the service
\* gave the same answers returns the same items, the same pagesFailed and the
\* same itemsBeforeDedup, whatever the interleaving was
C14_ParallelEqualsSequential ==
    Returned =>
        /\ mode = "sequential" => AggregateResult = SeqReturn(ServiceAnswers)
        /\ mode = "parallel" =>
              /\ AggregateResult.items = SeqReturn(ServiceAnswers).items
              /\ AggregateResult.pagesFailed = SeqReturn(ServiceAnswers).pagesFailed
              /\ AggregateResult.metrics.itemsBeforeDedup
                    = SeqReturn(ServiceAnswers).metrics.itemsBeforeDedup

\* C14 witness: a parallel run returned in which a task completed before an
\* earlier chunk's task, a chunk failed and two chunks with a shared line
\* succeeded
C14_Witness ==
    /\ Returned /\ mode = "parallel"
    /\ outOfOrder
    /\ Cardinality(Succeeded) >= 2
    /\ Succeeded # Chunks

\* the successful chunks that hold an item with this key
ChunksWithKey(key) ==
    {t \in Succeeded : key \in KeysOf(ItemsOf(chunks[t].content))}

FirstInInput(S) == CHOOSE t \in S : \A u \in S : t <= u

Range(seq) == {seq[i] : i \in 1..Len(seq)}

\* C15 as stated: when the last task of a parallel run completes and its
\* chunk shares a key with a chunk that completed before, the item returned
\* for that key is not the one of the chunk that completed last
C15_KeptFromFirstCompleted ==
    [][(mode = "parallel" /\ mainPc = "awaitAll" /\ mainPc' = "done" /\ ~threw') =>
        \A t \in Chunks :
            (~isSettled[t] /\ isSettled'[t] /\ settled'[t].success) =>
                \A i \in 1..Len(settled'[t].items) :
                    (\E u \in Chunks \ {t} :
                        /\ settled'[u].success
                        /\ DedupKey(settled'[t].items[i])
                              \in KeysOf(settled'[u].items))
                    => settled'[t].items[i]
                         \notin Range(ParReturn(pageResults').items)]_vars

\* C15: the returned items are the Deduplicator's output over the successful
\* chunks' items concatenated in input order, in sequential and in parallel
\* mode: the item returned for a key is the one of the first chunk in input
\* order that holds the key, whatever the completion order was
C15_KeptFromEarliestInput ==
    Returned =>
        /\ AggregateResult.items = deduplicateItems(ConcatItems(ServiceAnswers))
        /\ \A i \in 1..Len(AggregateResult.items) :
              AggregateResult.items[i] \in
                  Range(ItemsOf(chunks[FirstInInput(
                      ChunksWithKey(DedupKey(AggregateResult.items[i])))].content))

\* C15 witness: a parallel run returned, every chunk succeeded and holds the
\* shared line, and a task completed before an earlier chunk's task
C15_Witness ==
    /\ Returned /\ mode = "parallel"
    /\ outOfOrder
    /\ Succeeded = Chunks
    /\ Len(AggregateResult.items) < AggregateResult.metrics.itemsBeforeDedup

\* the items delivered to the caller by the finished call
Delivered ==
    IF mode = "streaming" THEN ConcatItems(yielded) ELSE AggregateResult.items

\* C16 as stated: in every mode, streaming included, no two items delivered
\* by the finished call have the same key
C16_EveryModeDeduplicates ==
    (mainPc = "done" /\ ~threw) => UniqueKeys(Delivered)

\* C16: sequential and parallel mode return deduplicated items, no two with
\* the same key and every key of a successful chunk present; streaming mode
\* yields the page results as they are, every item of every successful chunk
\* included, duplicates across chunks too
C16_OnlyAggregatingModesDeduplicate ==
    /\ Returned =>
          /\ UniqueKeys(AggregateResult.items)
          /\ KeysOf(AggregateResult.items) = KeysOf(ConcatItems(ServiceAnswers))
    /\ (mode = "streaming" /\ mainPc = "done") =>
          /\ Len(Delivered)
                = SumOver([t \in Chunks |-> Len(ItemsOf(chunks[t].content))], Succeeded)
          /\ \A j \in 1..Len(yielded) :
                yielded[j].success =>
                    \E t \in Succeeded : yielded[j] = SuccessResult(t)

\* C16 witness: a streaming run is over and delivered two items with the
\* same key, one from each of two chunks
C16_Witness ==
    /\ mode = "streaming" /\ mainPc = "done"
    /\ \E a, b \in 1..Len(yielded) :
          /\ a # b /\ yielded[a].success /\ yielded[b].success
          /\ KeysOf(yielded[a].items) \cap KeysOf(yielded[b].items) # {}

\* C17: itemsBeforeDedup is the sum of the item counts of the successful page
\* results, totalItems is the length of the returned items, and totalItems is
\* at most itemsBeforeDedup
C17_MetricsCounts ==
    Returned =>
        /\ AggregateResult.metrics.itemsBeforeDedup =
              SumOver([j \in 1..Len(pageResults) |->
                          IF pageResults[j].success
                          THEN Len(pageResults[j].items) ELSE 0],
                      1..Len(pageResults))
        /\ AggregateResult.metrics.itemsBeforeDedup =
              SumOver([t \in Chunks |-> Len(ItemsOf(chunks[t].content))], Succeeded)
        /\ AggregateResult.metrics.totalItems = Len(AggregateResult.items)
        /\ AggregateResult.metrics.totalItems
              <= AggregateResult.metrics.itemsBeforeDedup

\* C17 witness: a parallel run returned with a failed chunk and fewer items
\* than before deduplication
C17_Witness ==
    /\ Returned /\ mode = "parallel"
    /\ Succeeded # Chunks
    /\ AggregateResult.metrics.totalItems >= 2
    /\ AggregateResult.metrics.totalItems
          < AggregateResult.metrics.itemsBeforeDedup

\* C18: pagesProcessed is the number of chunks and the length of pageResults,
\* pagesFailed is the number of page results with success = false, and the
\* successful page results and pagesFailed add up to pagesProcessed
C18_PageCounts ==
    Returned =>
        /\ AggregateResult.pagesProcessed = NumChunks
        /\ Len(AggregateResult.pageResults) = NumChunks
        /\ AggregateResult.pagesFailed =
              Cardinality({j \in 1..Len(pageResults) : ~pageResults[j].success})
        /\ Cardinality({j \in 1..Len(pageResults) : pageResults[j].success})
              + AggregateResult.pagesFailed = AggregateResult.pagesProcessed

\* C18 witness: a sequential run returned with failed and successful chunks
C18_Witness ==
    /\ Returned /\ mode = "sequential"
    /\ AggregateResult.pagesFailed >= 1
    /\ AggregateResult.pagesFailed < AggregateResult.pagesProcessed

\* --------------------------------------------------- claims: Deduplicator
RECURSIVE IsSubsequence(_, _)
IsSubsequence(a, b) ==
    IF a = <<>> THEN TRUE
    ELSE IF b = <<>> THEN FALSE
    ELSE IF Head(a) = Head(b) THEN IsSubsequence(Tail(a), Tail(b))
    ELSE IsSubsequence(a, Tail(b))

FirstIndexOf(seq, key) ==
    CHOOSE i \in 1..Len(seq) :
        /\ DedupKey(seq[i]) = key
        /\ \A j \in 1..(i - 1) : DedupKey(seq[j]) # key

\* C19: deduplicating the output of the Deduplicator gives that output again
C19_DedupIdempotent ==
    dedupPc = "twice" => dedupAgain = dedupOutput

\* C19 witness: the first pass dropped an item and kept at least two, and
\* the second pass ran on what was kept
C19_Witness ==
    /\ dedupPc = "twice"
    /\ Len(dedupOutput) >= 2
    /\ Len(dedupOutput) < Len(dedupInput)

\* C20: the output is a subsequence of the input, no two output items have
\* the same key, and for every key of the input the output holds exactly the
\* first input item with that key
C20_FirstOccurrenceWins ==
    dedupPc # "idle" =>
        /\ IsSubsequence(dedupOutput, dedupInput)
        /\ \A a, b \in 1..Len(dedupOutput) :
              a # b => DedupKey(dedupOutput[a]) # DedupKey(dedupOutput[b])
        /\ KeysOf(dedupOutput) = KeysOf(dedupInput)
        /\ \A a \in 1..Len(dedupOutput) :
              dedupOutput[a] =
                  dedupInput[FirstIndexOf(dedupInput, DedupKey(dedupOutput[a]))]

\* C20 witness: the third item has the key of the first (its description
\* differs in case and trailing space only) but is another item, the second
\* has another key; the first two are kept in their order
C20_Witness ==
    /\ dedupPc = "once"
    /\ Len(dedupInput) = 3
    /\ dedupInput[1].evidence = None /\ dedupInput[1].description = Some(<<"a">>)
    /\ dedupInput[3].evidence = None /\ dedupInput[3].description = Some(<<"A", " ">>)
    /\ dedupInput[2].evidence = Some(<<"a">>)
    /\ dedupOutput = <<dedupInput[1], dedupInput[2]>>

Occurs(str, search, p) ==
    /\ p >= 0 /\ p + Len(search) <= Len(str)
    /\ \A i \in 1..Len(search) : str[p + i] = search[i]

Occurrences(str, search) == {p \in 0..Len(str) : Occurs(str, search, p)}

OffsetsReturned == fnPc = "returned" /\ fnCall.fn = "computeEvidenceOffsets"
MultipleReturned == fnPc = "returned" /\ fnCall.fn = "computeMultipleOffsets"
RawEvidenceReturned == fnPc = "returned" /\ fnCall.fn = "processRawEvidence"

\* C23: a returned span has the evidence text as its text, the source reads
\* that text between its offsets, 0 <= startOffset < endOffset <= length of
\* the source and endOffset = startOffset + length of the text; null is
\* returned exactly when the text is empty, the source is empty or the text
\* does not occur at or after startFrom
C23_NeverInventsOffsets ==
    OffsetsReturned =>
        /\ fnResult # None =>
              /\ fnResult[1].text = fnCall.evidenceText
              /\ fnResult[1].startOffset >= 0
              /\ fnResult[1].startOffset < fnResult[1].endOffset
              /\ fnResult[1].endOffset <= Len(fnCall.sourceText)
              /\ fnResult[1].endOffset
                    = fnResult[1].startOffset + Len(fnCall.evidenceText)
              /\ \A i \in 1..Len(fnCall.evidenceText) :
                    fnCall.sourceText[fnResult[1].startOffset + i]
                        = fnCall.evidenceText[i]
        /\ fnResult = None <=>
              \/ fnCall.evidenceText = <<>>
              \/ fnCall.sourceText = <<>>
              \/ ~\E p \in Occurrences(fnCall.sourceText, fnCall.evidenceText) :
                      p >= fnCall.startFrom

\* C23 witness: a text of two characters found in the middle of the source
C23_Witness ==
    /\ OffsetsReturned
    /\ fnResult # None
    /\ Len(fnCall.evidenceText) = 2
    /\ fnResult[1].startOffset = 1
    /\ fnResult[1].endOffset = 3 /\ Len(fnCall.sourceText) = 4

\* C24: a returned span starts at or after startFrom (when startFrom >= 0)
\* and the text occurs at no position from startFrom up to its start; with
\* startFrom = 0 the span is that of the first occurrence
C24_LeftmostFromSearchFrom ==
    (OffsetsReturned /\ fnResult # None) =>
        /\ fnCall.startFrom >= 0 => fnResult[1].startOffset >= fnCall.startFrom
        /\ \A p \in Occurrences(fnCall.sourceText, fnCall.evidenceText) :
              p >= fnCall.startFrom => fnResult[1].startOffset <= p
        /\ fnCall.startFrom = 0 =>
              \A p \in Occurrences(fnCall.sourceText, fnCall.evidenceText) :
                  fnResult[1].startOffset <= p

\* C24 witness: the text occurs before startFrom and twice after it, and the
\* first of the two is returned
C24_Witness ==
    /\ OffsetsReturned /\ fnResult # None
    /\ fnCall.startFrom = 1
    /\ Occurrences(fnCall.sourceText, fnCall.evidenceText) = {0, 2, 3}
    /\ fnResult[1].startOffset = 2

\* the texts of a list that computeEvidenceOffsets resolves from offset 0
Resolving(sourceText, texts) ==
    SelectSeq(texts, LAMBDA t : computeEvidenceOffsets(sourceText, t, 0) # None)

C26_RepeatedTextsDoNotOverlap ==
    (MultipleReturned /\ Len(fnResult) = Len(fnCall.evidenceTexts)) =>
        \A i, j \in 1..Len(fnCall.evidenceTexts) :
            ( /\ i < j
              /\ fnCall.evidenceTexts[i] = fnCall.evidenceTexts[j]
              /\ Cardinality(Occurrences(fnCall.sourceText,
                                         fnCall.evidenceTexts[i])) > 1 )
            => fnResult[i].endOffset <= fnResult[j].startOffset

\* C27: the result has exactly the keys of rawEvidence; a key's value is
\* null when its raw span is undefined, has an empty text or a text that
\* does not occur in the source, and else the span computeEvidenceOffsets
\* gives from offset 0
C27_KeysPreserved ==
    RawEvidenceReturned =>
        /\ DOMAIN fnResult = DOMAIN fnCall.rawEvidence
        /\ \A key \in DOMAIN fnCall.rawEvidence :
              IF \/ fnCall.rawEvidence[key] = None
                 \/ fnCall.rawEvidence[key][1] = <<>>
                 \/ Occurrences(fnCall.sourceText, fnCall.rawEvidence[key][1]) = {}
              THEN fnResult[key] = None
              ELSE fnResult[key] =
                     computeEvidenceOffsets(fnCall.sourceText,
                                            fnCall.rawEvidence[key][1], 0)

\* C27 witness: of two keys one has a text that occurs in the source and the
\* other a text that does not; both keys are in the result
C27_Witness ==
    /\ RawEvidenceReturned
    /\ DOMAIN fnCall.rawEvidence = EvidenceKeys
    /\ fnResult["description"] # None
    /\ fnResult["description"][1].startOffset = 1
    /\ fnCall.rawEvidence["total"] # None
    /\ fnCall.rawEvidence["total"][1] # <<>>
    /\ fnResult["total"] = None

\* ---------------------------------------------------- claims: construction
\* C28: without a credential the constructor throws: the run ends there, no
\* entry point is called, no chunk is processed and nothing is retried; with
\* a credential the constructor does not throw, and no error leaves an
\* entry point of the constructed pipeline
C28_ConfigurationErrorAtConstruction ==
    /\ apiKey = "" =>
          /\ mainPc \in {"new", "configError"}
          /\ \A t \in Chunks : calls[t] = 0 /\ taskPc[t] = "idle"
          /\ pageResults = <<>> /\ yielded = <<>>
    /\ mainPc = "configError" => (apiKey = "" /\ ~ENABLED Next)
    /\ mainPc \notin {"new", "configError"} => (apiKey # "" /\ ~threw)

\* C28 witness: the constructor threw for lack of a credential
C28_Witness ==
    /\ mainPc = "configError"
    /\ apiKey = ""
    /\ \A t \in Chunks : calls[t] = 0

\* ------------------------------------------------ claims: no cancellation
\* C29: once extractStreaming has launched its tasks, every task runs to
\* completion and every slot is released, whether or not the consumer pulls
\* again, and no error is raised
C29_LaunchedTasksComplete ==
    /\ (mode = "streaming" /\ mainPc \in {"raceWait", "yielded"})
          ~> (/\ \A t \in Chunks : taskPc[t] = "done"
              /\ inFlight[1] = 0)
    /\ [](~threw)

\* C29 witness: the consumer took one result and has not pulled since; every
\* task is over, a failed one too, and no slot is held
C29_Witness ==
    /\ mode = "streaming" /\ mainPc = "yielded"
    /\ Len(yielded) = 1
    /\ Len(unemitted) = NumChunks - 1
    /\ \A t \in Chunks : taskPc[t] = "done"
    /\ \E t \in Chunks : lastOutcome[t] # "ok"
    /\ inFlight[1] = 0

\* the calls of invocation r that hold a slot
RunCalls(r) == {t \in RunChunks : runTaskPc[r][t] = "calling"}

\* C30: each invocation creates its own rate limiter, so two invocations
\* under way at once share neither the in-flight count nor the last-start
\* time: an invocation's limiter counts its own calls only, its spacing clock
\* is reset by its own starts only, and whether its next call is admitted
\* depends on its own calls and its own last start, whatever the other
\* invocation admits or fails.
C30_SchedulerPerRun ==
    /\ \A r, s \in Runs :
          (r # s /\ runPc[r] # "idle" /\ runPc[s] # "idle")
              => limiterOf[r] # limiterOf[s]
    /\ \A r \in Runs :
          runPc[r] = "running" =>
              /\ inFlight[limiterOf[r]] = Cardinality(RunCalls(r))
              /\ sinceStart[limiterOf[r]] = sinceRunStart[r]
              /\ \A t \in RunChunks :
                    (runTaskPc[r][t] = "waiting" /\ RunTurn(r, t))
                        => (ENABLED RunAdmit(r, t)
                              <=> /\ Cardinality(RunCalls(r)) < rateLimit.maxConcurrent
                                  /\ sinceRunStart[r] >= rateLimit.delayMs)

\* invocation 1 has had a failure, holds every slot of its limiter and is
\* inside its spacing delay, while invocation 2 can start its first call
C30_Witness ==
    /\ runPc[1] = "running" /\ runPc[2] = "running"
    /\ \E t \in RunChunks : runTaskPc[1][t] = "failed"
    /\ Cardinality(RunCalls(1)) = rateLimit.maxConcurrent
    /\ sinceRunStart[1] < rateLimit.delayMs
    /\ RunCalls(2) = {}
    /\ ENABLED RunAdmit(2, 1)

\* the shape of a page result built for chunk t
WellFormedResult(t, r) ==
    /\ r.pageNumber = chunks[t].pageNumber
    /\ r.success => r.error = Undefined /\ r.errorCode = Undefined
    /\ ~r.success =>
          r.items = <<>> /\ r.error # Undefined /\ r.errorCode # Undefined

\* C31: rateLimiter.execute is called once per chunk (a chunk is submitted
\* from idle only, and every chunk has been submitted when the call is over),
\* its page result is recorded once and stays as recorded, the chunk is never
\* submitted again; a failed result has no items and carries error and
\* errorCode, a successful one carries neither; the sequential pageResults
\* holds one entry per recorded chunk.
C31_RecordedOnce ==
    /\ [][\A t \in Chunks :
            /\ (taskPc'[t] = "waiting" /\ taskPc[t] # "waiting")
                   => taskPc[t] = "idle"
            /\ isSettled[t] =>
                   /\ isSettled'[t]
                   /\ settled'[t] = settled[t]
                   /\ taskPc'[t] = "done"]_vars
    /\ [](\A t \in Chunks : isSettled[t] => WellFormedResult(t, settled[t]))
    /\ [](mode = "sequential" =>
            /\ Len(pageResults) = Cardinality({t \in Chunks : isSettled[t]})
            /\ \A i \in 1..Len(pageResults) : pageResults[i] = settled[i])
    /\ [](mainPc = "done" => \A t \in Chunks : taskPc[t] = "done")

\* C31 witness: a sequential call is over; a chunk was recorded as failed
\* after a retry, another as successful
C31_Witness ==
    /\ mode = "sequential" /\ mainPc = "done"
    /\ \E t \in Chunks :
          ~settled[t].success /\ calls[t] > 1 /\ settled[t].items = <<>>
    /\ \E t \in Chunks : settled[t].success /\ settled[t].items # <<>>

\* the config asked for: each field as supplied, a field not supplied at its
\* default
ConfigAskedFor(supplied) ==
    [f \in ConfigFields |->
        IF supplied # None /\ f \in DOMAIN supplied[1] THEN supplied[1][f]
        ELSE DEFAULT_RATE_LIMIT[f]]

\* C32 as stated: in every mode the config of the RateLimiter has every
\* field, with the value the extractor supplies and the default for a field
\* it does not supply (the default as a whole without a per-extractor config).
C32_SameConfigInEveryMode ==
    (fnPc = "returned" /\ fnCall.fn = "rateLimiterConfig")
        => fnResult = ConfigAskedFor(fnCall.rateLimit)

\* C33: when the external service answers every call, every orchestration
\* call ends: sequential and parallel mode return, a streaming sequence that
\* is pulled to its end ends, with every chunk done and every slot released.
\* A chunk is done only by way of an admitted call, so every call waiting for
\* admission or backing off has been admitted by then; and while a call
\* waits, something can always happen: its admission, the passage of time or
\* the end of a call in flight.
C33_EveryCallTerminates ==
    /\ (mainPc = "start")
          ~> (/\ mainPc = "done"
              /\ \A t \in Chunks : taskPc[t] = "done"
              /\ inFlight[1] = 0)
    /\ [][\A t \in Chunks :
            (taskPc'[t] = "done" /\ taskPc[t] # "done") => taskPc[t] = "inflight"]_vars
    /\ [](\A t \in Chunks :
            taskPc[t] \in {"waiting", "backoff"}
                => ENABLED (Admit(t) \/ Tick \/ \E u \in Chunks : CallSucceeds(u)))

\* C33 witness: with one slot and a positive spacing a call backs off while
\* another is in flight and a third waits for admission
C33_Witness ==
    /\ rateLimit.maxConcurrent = 1 /\ rateLimit.delayMs > 0
    /\ \E t, u, v \in Chunks :
          /\ taskPc[t] = "backoff" /\ wait[t] > 0
          /\ taskPc[u] = "inflight"
          /\ taskPc[v] = "waiting"

\* C34: keys of different passes are different strings, so an item is never
\* dropped because of an item keyed by another pass: an item whose pass no
\* earlier item uses is kept, although an earlier item of another pass has
\* the same text after the pass name.
C34_TiersNeverCollide ==
    dedupPc # "idle" =>
        /\ \A a, b \in 1..Len(dedupInput) :
              KeyTier(dedupInput[a]) # KeyTier(dedupInput[b])
                  => DedupKey(dedupInput[a]) # DedupKey(dedupInput[b])
        /\ \A b \in 1..Len(dedupInput) :
              (\A a \in 1..(b - 1) : KeyTier(dedupInput[a]) # KeyTier(dedupInput[b]))
                  => \E k \in 1..Len(dedupOutput) : dedupOutput[k] = dedupInput[b]
        /\ Len(dedupOutput)
              >= Cardinality({KeyTier(dedupInput[a]) : a \in 1..Len(dedupInput)})

\* C34 witness: an item keyed by its evidence text a, an item without
\* evidence whose description is a, and an item with neither: all three
\* are kept
C34_Witness ==
    /\ dedupPc = "once"
    /\ dedupInput = <<[evidence |-> Some(<<"a">>), description |-> None],
                      [evidence |-> None, description |-> Some(<<"a">>)],
                      [evidence |-> None, description |-> None]>>
    /\ dedupOutput = dedupInput

\* C35: in sequential mode at most one chunk is inside rateLimiter.execute
\* and at most one external call is in flight at any time, whatever
\* maxConcurrent is: a chunk is submitted only when every chunk before it has
\* its page result.
C35_SequentialOneInFlight ==
    mode = "sequential" =>
        /\ Cardinality(InFlightCalls) <= 1
        /\ inFlight[1] <= 1
        /\ Cardinality({t \in Chunks : taskPc[t] \notin {"idle", "done"}}) <= 1
        /\ \A t \in Chunks :
              taskPc[t] # "idle" => \A u \in 1..(t - 1) : isSettled[u]

\* C35 witness: the extractor allows several concurrent calls and no spacing;
\* the call of chunk 2 is in flight, chunk 1 is recorded and chunk 3 is not
\* submitted although a slot is free
C35_Witness ==
    /\ mode = "sequential"
    /\ rateLimit.maxConcurrent = MaxConcurrentBound /\ rateLimit.delayMs = 0
    /\ taskPc[1] = "done" /\ taskPc[2] = "inflight" /\ taskPc[3] = "idle"
    /\ inFlight[1] < rateLimit.maxConcurrent

\* C36 as stated: in sequential as in parallel mode nothing an onProgress
\* callback throws leaves the call, and the call ends with a page result for
\* every chunk, the chunks whose callback did not throw having been
\* submitted.
C36_ProgressFailureIsolated ==
    /\ ~threw
    /\ mainPc = "done" =>
          /\ Len(pageResults) = NumChunks
          /\ \A t \in Chunks \ progressThrows : calls[t] >= 1

\* C37: streaming launches lazily: once extractStreaming has been called and
\* until the consumer asks for the first value no task has started, no
\* external call has been dispatched and none can be; the first pull
\* launches all the tasks together
C37_StreamingLaunchesLazily ==
    /\ [](mode = "streaming" /\ mainPc \in {"start", "generator"}
             => /\ \A t \in Chunks : taskPc[t] = "idle" /\ calls[t] = 0
                /\ inFlight[1] = 0
                /\ ~ENABLED (\E t \in Chunks : Admit(t)))
    /\ [][mode = "streaming" /\ mainPc = "generator" /\ mainPc' # "generator"
             => \A t \in Chunks : taskPc[t] = "idle" /\ taskPc'[t] = "waiting"]_vars

\* C37 witness: the first value has just been asked for; every task is
\* launched and none has been admitted yet
C37_Witness ==
    /\ mode = "streaming" /\ mainPc = "raceWait"
    /\ \A t \in Chunks : taskPc[t] = "waiting" /\ calls[t] = 0

\* C38: chunkBySize ends on every text and every maxChunkSize >= 1 (its loop
\* can always go on or return, and the iterations made plus the characters
\* left never exceed the length of the text), every iteration of its loop
\* shortens the remaining text, and no chunk returned has a content longer
\* than maxChunkSize
C38_ChunkBySizeBounded ==
    /\ [](fnPc = "loop" => /\ ENABLED ChunkNext
                           /\ Len(fnResult.chunks) + Len(fnResult.remaining)
                                  <= Len(fnCall.text))
    /\ [][fnPc = "loop" /\ fnPc' = "loop"
             => Len(fnResult'.remaining) < Len(fnResult.remaining)]_vars
    /\ [](fnPc = "returned" /\ fnCall.fn = "chunkBySize"
             => \A i \in 1..Len(Produced) :
                    Len(Produced[i].content) <= fnCall.maxChunkSize)

\* C39: the chunks splitIntoPages and chunkBySize return carry the page
\* numbers 1, 2, ..., n in output order, without repeat or gap
C39_PageNumbersSequential ==
    fnPc # "idle" /\ fnCall.fn \in {"splitIntoPages", "chunkBySize"}
        => \A i \in 1..Len(Produced) : Produced[i].pageNumber = i

\* C39 witness: chunkBySize has returned three chunks
C39_Witness ==
    /\ fnPc = "returned" /\ fnCall.fn = "chunkBySize"
    /\ Len(Produced) = 3

\* the texts of the segments, one after the other
RECURSIVE ConcatTexts(_)
ConcatTexts(segs) ==
    IF segs = <<>> THEN <<>> ELSE Head(segs).text \o ConcatTexts(Tail(segs))

\* the spans of the highlighted segments, in the order rendered
RenderedSpans(segs) ==
    LET hl == SelectSeq(segs, LAMBDA g : g.highlight # None)
    IN  [i \in 1..Len(hl) |-> hl[i].highlight[1].span]

\* C40: the segments GroundingViewer renders partition the source text: their
\* texts, concatenated, are the source text; the highlighted segments come in
\* increasing startOffset order and do not overlap; no highlight that
\* overlaps an accepted one or ends past the end of the text is rendered
C40_SegmentsPartitionSource ==
    fnPc = "returned" /\ fnCall.fn = "GroundingViewer"
        => LET spans == RenderedSpans(fnResult)
           IN  /\ ConcatTexts(fnResult) = fnCall.sourceText
               /\ \A i, j \in 1..Len(spans) :
                      i < j => /\ spans[i].startOffset <= spans[j].startOffset
                               /\ spans[i].endOffset <= spans[j].startOffset
               /\ \A i \in 1..Len(spans) :
                      spans[i].endOffset <= Len(fnCall.sourceText)

====
